---------------------------- MODULE Spec2Model ----------------------------
(***************************************************************************)
(* A model of the trademark index: the ingestion job                        *)
(* (src/scripts/build_index.py) and the query engine (src/backend.py).      *)
(*                                                                          *)
(* Text is modelled as a sequence of one-character strings, so that         *)
(* trimming, lower-casing, normalisation, prefix matching and date parsing  *)
(* are computed character by character as the code computes them.           *)
(***************************************************************************)
EXTENDS Integers, Sequences, FiniteSets, TLC

(***************************************************************************)
(* Characters and the str methods the code uses.                            *)
(***************************************************************************)
UpperAZ == <<"A","B","C","D","E","F","G","H","I","J","K","L","M",
             "N","O","P","Q","R","S","T","U","V","W","X","Y","Z">>
LowerAZ == <<"a","b","c","d","e","f","g","h","i","j","k","l","m",
             "n","o","p","q","r","s","t","u","v","w","x","y","z">>
DigitChars == <<"0","1","2","3","4","5","6","7","8","9">>

\* The byte-order mark as a decoded character (U+FEFF).
BOM == "BOM"

Range(f) == {f[i] : i \in DOMAIN f}

IsDigit(c) == c \in Range(DigitChars)
IsLowerAlnum(c) == c \in Range(LowerAZ) \/ IsDigit(c)
\* str.strip() and the regex class \s: the white space of the model's alphabet.
IsSpace(c) == c \in {" ", "\t", "\n", "\r"}

\* str.lower() on one character.
LowerChar(c) ==
    IF \E i \in 1..26 : UpperAZ[i] = c
    THEN LowerAZ[CHOOSE i \in 1..26 : UpperAZ[i] = c]
    ELSE c

\* str.lower()
Lower(s) == [i \in 1..Len(s) |-> LowerChar(s[i])]

RECURSIVE LStrip(_)
LStrip(s) == IF s # <<>> /\ IsSpace(Head(s)) THEN LStrip(Tail(s)) ELSE s

RECURSIVE RStrip(_)
RStrip(s) ==
    IF s # <<>> /\ IsSpace(s[Len(s)]) THEN RStrip(SubSeq(s, 1, Len(s) - 1)) ELSE s

\* str.strip()
Strip(s) == RStrip(LStrip(s))

\* str.startswith(p)
StartsWith(s, p) == Len(p) <= Len(s) /\ SubSeq(s, 1, Len(p)) = p

\* `p in s` for strings: p occurs as a contiguous substring of s.
Contains(s, p) ==
    \E i \in 0..(Len(s) - Len(p)) : SubSeq(s, i + 1, i + Len(p)) = p

\* str.replace(c, "") for a single character c.
RemoveChar(s, c) == SelectSeq(s, LAMBDA x : x # c)

\* re.sub(r"[^a-z0-9]+", " ", s): every maximal run of characters outside
\* [a-z0-9] becomes one space.
RECURSIVE SubNonAlnum(_)
SubNonAlnum(s) ==
    IF s = <<>> THEN <<>>
    ELSE IF IsLowerAlnum(Head(s)) THEN <<Head(s)>> \o SubNonAlnum(Tail(s))
    ELSE IF Len(s) >= 2 /\ ~IsLowerAlnum(s[2]) THEN SubNonAlnum(Tail(s))
    ELSE <<" ">> \o SubNonAlnum(Tail(s))

\* re.sub(r"\s+", " ", s): every maximal run of white space becomes one space.
RECURSIVE SubSpaces(_)
SubSpaces(s) ==
    IF s = <<>> THEN <<>>
    ELSE IF ~IsSpace(Head(s)) THEN <<Head(s)>> \o SubSpaces(Tail(s))
    ELSE IF Len(s) >= 2 /\ IsSpace(s[2]) THEN SubSpaces(Tail(s))
    ELSE <<" ">> \o SubSpaces(Tail(s))

norm_text_no_strip(s) == SubSpaces(SubNonAlnum(Lower(s)))

norm_text(s) == Strip(SubSpaces(SubNonAlnum(Lower(s))))

\* str.upper()
Upper(s) ==
    [i \in 1..Len(s) |->
        IF \E k \in 1..26 : LowerAZ[k] = s[i]
        THEN UpperAZ[CHOOSE k \in 1..26 : LowerAZ[k] = s[i]]
        ELSE s[i]]

\* sep.join(parts)
RECURSIVE Join(_, _)
Join(sep, parts) ==
    IF parts = <<>> THEN <<>>
    ELSE IF Len(parts) = 1 THEN parts[1]
    ELSE parts[1] \o sep \o Join(sep, Tail(parts))

\* int(s) for a string of decimal digits (white space around it allowed);
\* -1 stands for ValueError.
RECURSIVE DigitsToNat(_, _)
DigitsToNat(s, acc) ==
    IF s = <<>> THEN acc
    ELSE DigitsToNat(Tail(s),
                     acc * 10 + (CHOOSE d \in 0..9 : DigitChars[d + 1] = Head(s)))

ParseInt(s) ==
    LET t == Strip(s)
    IN  IF t # <<>> /\ \A i \in 1..Len(t) : IsDigit(t[i])
        THEN DigitsToNat(t, 0)
        ELSE -1

\* str(n) for a natural number n.
RECURSIVE NatToStr(_)
NatToStr(n) ==
    IF n < 10 THEN <<DigitChars[n + 1]>>
    ELSE NatToStr(n \div 10) \o <<DigitChars[(n % 10) + 1]>>

(***************************************************************************)
(* build_index.py: constants and the pure helpers of the record builder.    *)
(***************************************************************************)
S_TradeMark == <<"T","r","a","d","e"," ","M","a","r","k">>
S_MarkText == <<"M","a","r","k"," ","T","e","x","t">>
S_Name == <<"N","a","m","e">>
S_Country == <<"C","o","u","n","t","r","y">>
S_Status == <<"S","t","a","t","u","s">>
S_Expired == <<"E","x","p","i","r","e","d">>
CLASS_PREFIX == <<"C","l","a","s","s">>

S_UnitedKingdom == <<"U","n","i","t","e","d"," ","K","i","n","g","d","o","m">>
S_EuropeanUnion == <<"E","u","r","o","p","e","a","n"," ","U","n","i","o","n">>
S_UnitedStates == <<"U","n","i","t","e","d"," ","S","t","a","t","e","s">>
S_RestOfWorld == <<"R","e","s","t"," ","o","f"," ","W","o","r","l","d">>
S_Published == <<"P","u","b","l","i","s","h","e","d">>

\* parse_date: the trimmed string, whether or not it parses.
parse_date(s) == Strip(s)

CompanyMarkers ==
    { <<" ","l","t","d">>, <<" ","l","i","m","i","t","e","d">>, <<" ","l","l","c">>,
      <<" ","i","n","c">>, <<" ","c","o","r","p">>, <<" ","g","m","b","h">>,
      <<" ","p","l","c">>, <<" ","l","l","p">> }

infer_owner_type(name) ==
    IF name = <<>> THEN "unknown"
    ELSE LET n == Lower(name)
         IN  IF \E x \in CompanyMarkers : Contains(n, x) THEN "company"
             ELSE IF Contains(n, <<" ","a","n","d"," ">>) \/ Contains(n, <<" ","&"," ">>)
             THEN "company"
             ELSE "individual_or_other"

\* dict(zip(headers, row)).get(key) or "": the value under the last column
\* named key (a later duplicate column overrides an earlier one).
DictGet(headers, row, key) ==
    LET n  == IF Len(row) < Len(headers) THEN Len(row) ELSE Len(headers)
        ix == {i \in 1..n : headers[i] = key}
    IN  IF ix = {} THEN <<>>
        ELSE row[CHOOSE i \in ix : \A j \in ix : j <= i]

\* The falsy tokens of a class column.
ClassAbsent ==
    { <<>>, <<"0">>, <<"N","o">>, <<"N">>, <<"F","a","l","s","e">> }

\* build_class_codes: the dict's keys in first-insertion order, each with
\* its last value.
RECURSIVE ClassList(_, _, _)
ClassList(headers, row, i) ==
    IF i > Len(headers) THEN <<>>
    ELSE LET k    == headers[i]
             num  == IF StartsWith(k, CLASS_PREFIX)
                     THEN ParseInt(SubSeq(k, Len(CLASS_PREFIX) + 1, Len(k)))
                     ELSE -1
             dup  == \E j \in 1..(i - 1) : headers[j] = k
             here == IF num >= 0 /\ ~dup
                        /\ Strip(DictGet(headers, row, k)) \notin ClassAbsent
                     THEN <<NatToStr(num)>>
                     ELSE <<>>
         IN  here \o ClassList(headers, row, i + 1)

build_class_codes(headers, row) == Join(<<",">>, ClassList(headers, row, 1))

(***************************************************************************)
(* read_rows.  A text file is modelled by what each of the four encodings   *)
(* makes of its bytes: dec[e].rows are the csv rows the reader delivers     *)
(* under encoding e (the first is the header line, <<>> is a blank line)    *)
(* and dec[e].fail is the number of rows delivered before the decoder or    *)
(* the csv reader raises (NoFail: it never does; 0: the first read raises). *)
(***************************************************************************)
ENCODINGS == <<"utf-16", "utf-16-le", "utf-16-be", "utf-8-sig">>
NoFail == -1

\* headers = [h.replace(BOM, "").strip() for h in headers]
CleanHeaders(hs) == [i \in 1..Len(hs) |-> Strip(RemoveChar(hs[i], BOM))]

HeaderOk(hs) == S_TradeMark \in Range(hs) /\ S_MarkText \in Range(hs)

\* The state of the generator: the encoding being tried (5: none left) and
\* the number of rows read under it.
GenStart == [enc |-> 1, pos |-> 0]

\* One resumption of the generator read_rows(f) from state g: the next item
\* it yields, or its return, or the ValueError it raises after the last
\* encoding.  An exception raised inside the try block, before or after
\* the header was yielded, is caught and the next encoding is tried.
RECURSIVE read_rows_next(_, _)
read_rows_next(f, g) ==
    IF g.enc > Len(ENCODINGS) THEN [kind |-> "raise", item |-> <<>>, gen |-> g]
    ELSE LET o == f.dec[g.enc]
         IN  IF g.pos = 0
             THEN \* open, headers = next(reader), the header check
                  IF o.fail = 0 \/ o.rows = <<>> \/ ~HeaderOk(CleanHeaders(o.rows[1]))
                  THEN read_rows_next(f, [enc |-> g.enc + 1, pos |-> 0])
                  ELSE [kind |-> "yield", item |-> CleanHeaders(o.rows[1]),
                        gen |-> [g EXCEPT !.pos = 1]]
             ELSE \* for row in reader
                  IF o.fail = g.pos
                  THEN read_rows_next(f, [enc |-> g.enc + 1, pos |-> 0])
             ELSE IF g.pos >= Len(o.rows)
                  THEN [kind |-> "return", item |-> <<>>, gen |-> g]
             ELSE IF o.rows[g.pos + 1] = <<>>
                  THEN read_rows_next(f, [g EXCEPT !.pos = g.pos + 1])
             ELSE [kind |-> "yield", item |-> o.rows[g.pos + 1],
                   gen |-> [g EXCEPT !.pos = g.pos + 1]]

(***************************************************************************)
(* The marks table and the Index Writer.  A table is the sequence of its    *)
(* rows in rowid order.  Of the seventeen columns the model keeps those the *)
(* query engine reads; category, mark_type, filed, published, registered    *)
(* and renewal_due are copied exactly as status and expired are.            *)
(***************************************************************************)

\* INSERT OR IGNORE of one row into marks, whose reg_no column is UNIQUE.
InsertOrReplace(marks, rec) ==
    IF \E i \in 1..Len(marks) : marks[i].reg_no = rec.reg_no
    THEN [i \in 1..Len(marks) |->
            IF marks[i].reg_no = rec.reg_no THEN rec ELSE marks[i]]
    ELSE Append(marks, rec)

InsertOrIgnore(marks, rec) ==
    IF \E i \in 1..Len(marks) : marks[i].reg_no = rec.reg_no
    THEN marks
    ELSE Append(marks, rec)

\* insert_batch: executemany over the batch, in order.
RECURSIVE insert_batch(_, _)
insert_batch(marks, batch) ==
    IF batch = <<>> THEN marks
    ELSE insert_batch(InsertOrIgnore(marks, Head(batch)), Tail(batch))

\* The batch size of ingest_file and ingest_journal_xml (5000 in the code),
\* scaled down so that a file of a few rows is split into several batches.
BATCH_SIZE == 2

\* ingest_file, lines 303-348: pad or trim the row, then build the record.
PadOrTrim(headers, row) ==
    [i \in 1..Len(headers) |-> IF i <= Len(row) THEN row[i] ELSE <<>>]

MarkFromRowLowerOnly(headers, row0, path) ==
    LET row       == PadOrTrim(headers, row0)
        mark_text == Strip(DictGet(headers, row, S_MarkText))
        owner     == Strip(DictGet(headers, row, S_Name))
    IN  [ reg_no         |-> Strip(DictGet(headers, row, S_TradeMark)),
          mark_text      |-> mark_text,
          mark_text_norm |-> Lower(mark_text),
          owner_name     |-> owner,
          owner_type     |-> infer_owner_type(owner),
          country        |-> Strip(DictGet(headers, row, S_Country)),
          status         |-> Strip(DictGet(headers, row, S_Status)),
          expired        |-> parse_date(DictGet(headers, row, S_Expired)),
          class_codes    |-> build_class_codes(headers, row),
          goods_services |-> <<>>,
          source_file    |-> path ]

\* The record ingest_file appends to its batch for one row of the file.
MarkFromRow(headers, row0, path) ==
    LET row       == PadOrTrim(headers, row0)
        mark_text == Strip(DictGet(headers, row, S_MarkText))
        owner     == Strip(DictGet(headers, row, S_Name))
    IN  [ reg_no         |-> Strip(DictGet(headers, row, S_TradeMark)),
          mark_text      |-> mark_text,
          mark_text_norm |-> norm_text(mark_text),
          owner_name     |-> owner,
          owner_type     |-> infer_owner_type(owner),
          country        |-> Strip(DictGet(headers, row, S_Country)),
          status         |-> Strip(DictGet(headers, row, S_Status)),
          expired        |-> parse_date(DictGet(headers, row, S_Expired)),
          class_codes    |-> build_class_codes(headers, row),
          goods_services |-> <<>>,
          source_file    |-> path ]

\* The loop of ingest_file from generator state g on.  st.marks is the
\* table as the writing connection sees it, st.batch the pending batch,
\* st.ins the records handed to insert_batch so far, in order.  The
\* ValueError of read_rows is not caught: the pending batch is lost and
\* the error leaves ingest_file.
RECURSIVE IngestLoop(_, _, _)
IngestLoop(f, g, st) ==
    LET r == read_rows_next(f, g)
    IN  IF r.kind = "raise" THEN [st EXCEPT !.raised = TRUE]
        ELSE IF r.kind = "return"
        THEN IF st.batch # <<>>
             THEN [st EXCEPT !.marks = insert_batch(st.marks, st.batch),
                             !.ins = st.ins \o st.batch,
                             !.batch = <<>>]
             ELSE st
        ELSE IF st.headers = <<>>
        THEN IngestLoop(f, r.gen, [st EXCEPT !.headers = <<r.item>>])
        ELSE LET b == Append(st.batch, MarkFromRow(st.headers[1], r.item, f.path))
             IN  IF Len(b) >= BATCH_SIZE
                 THEN IngestLoop(f, r.gen,
                                 [st EXCEPT !.marks = insert_batch(st.marks, b),
                                            !.ins = st.ins \o b,
                                            !.batch = <<>>])
                 ELSE IngestLoop(f, r.gen, [st EXCEPT !.batch = b])

\* ingest_file(con, path): the table afterwards, whether it raised, and the
\* records it handed to insert_batch.
ingest_file(marks, f) ==
    LET st == IngestLoop(f, GenStart,
                         [marks |-> marks, batch |-> <<>>, ins |-> <<>>,
                          headers |-> <<>>, raised |-> FALSE])
    IN  [marks |-> st.marks, raised |-> st.raised, ins |-> st.ins]

(***************************************************************************)
(* ingest_journal_xml.  A journal is the sequence of its TradeMark          *)
(* elements; an absent child or an empty text is <<>>.                      *)
(***************************************************************************)
normalize_country_from_office(reg_no0, office_code0) ==
    LET reg_no      == Upper(reg_no0)
        office_code == Upper(office_code0)
    IN  IF StartsWith(reg_no, <<"U","K">>) \/ office_code \in {<<"G","B">>, <<"U","K">>}
        THEN S_UnitedKingdom
        ELSE IF StartsWith(reg_no, <<"U","S">>) \/ office_code = <<"U","S">>
        THEN S_UnitedStates
        ELSE IF office_code \in {<<"E","M">>, <<"E","U">>, <<"E","P">>}
                \/ StartsWith(reg_no, <<"E","U">>)
        THEN S_EuropeanUnion
        ELSE S_RestOfWorld

GOODS_CAP == 4000

Truncate(s, n) == IF Len(s) <= n THEN s ELSE SubSeq(s, 1, n)

\* The stripped texts of the children named `field` that have one.
RECURSIVE GoodsTexts(_, _)
GoodsTexts(goods, field) ==
    IF goods = <<>> THEN <<>>
    ELSE (IF Head(goods)[field] # <<>> THEN <<Strip(Head(goods)[field])>> ELSE <<>>)
         \o GoodsTexts(Tail(goods), field)

MarkFromElement(el, path) ==
    LET reg_no    == Strip(el.RegistrationNumber)
        mark_text == Strip(el.MarkVerbalElementText)
        applicant == Strip(el.ApplicantName)
        class_nums == SelectSeq(GoodsTexts(el.goods, "ClassNumber"),
                                LAMBDA c : c # <<>>)
    IN  [ reg_no         |-> reg_no,
          mark_text      |-> mark_text,
          mark_text_norm |-> norm_text(mark_text),
          owner_name     |-> applicant,
          owner_type     |-> infer_owner_type(applicant),
          country        |-> normalize_country_from_office(
                                 reg_no, Strip(el.RegistrationOfficeCode)),
          status         |-> S_Published,
          expired        |-> <<>>,
          class_codes    |-> Join(<<",">>, class_nums),
          goods_services |-> Truncate(Join(<<" ","|"," ">>,
                                           GoodsTexts(el.goods, "Description")),
                                      GOODS_CAP),
          source_file    |-> path ]

RECURSIVE JournalLoop(_, _, _)
JournalLoop(x, i, st) ==
    IF i > Len(x.elems)
    THEN IF st.batch # <<>>
         THEN [st EXCEPT !.marks = insert_batch(st.marks, st.batch),
                         !.ins = st.ins \o st.batch,
                         !.batch = <<>>]
         ELSE st
    ELSE LET b == Append(st.batch, MarkFromElement(x.elems[i], x.path))
         IN  IF Len(b) >= BATCH_SIZE
             THEN JournalLoop(x, i + 1,
                              [st EXCEPT !.marks = insert_batch(st.marks, b),
                                         !.ins = st.ins \o b,
                                         !.batch = <<>>])
             ELSE JournalLoop(x, i + 1, [st EXCEPT !.batch = b])

ingest_journal_xml(marks, x) ==
    LET st == JournalLoop(x, 1, [marks |-> marks, batch |-> <<>>, ins |-> <<>>])
    IN  [marks |-> st.marks, ins |-> st.ins]

(***************************************************************************)
(* Dates.  A date is <<year, month, day>>.                                  *)
(***************************************************************************)
IsLeap(y) == (y % 4 = 0 /\ y % 100 # 0) \/ y % 400 = 0

DaysInMonth(y, m) ==
    IF m = 2 THEN (IF IsLeap(y) THEN 29 ELSE 28)
    ELSE IF m \in {4, 6, 9, 11} THEN 30 ELSE 31

\* d1 < d2 on dates.
DateLessOrEqual(d1, d2) ==
    \/ d1[1] < d2[1]
    \/ d1[1] = d2[1] /\ d1[2] < d2[2]
    \/ d1[1] = d2[1] /\ d1[2] = d2[2] /\ d1[3] <= d2[3]

\* d1 < d2 for dates <<year, month, day>>.
DateLess(d1, d2) ==
    \/ d1[1] < d2[1]
    \/ d1[1] = d2[1] /\ d1[2] < d2[2]
    \/ d1[1] = d2[1] /\ d1[2] = d2[2] /\ d1[3] < d2[3]

\* date(1899, 12, 30) + timedelta(days=n), n >= 0, by the proleptic
\* Gregorian calendar of datetime.date.
DateFromSerial(n) ==
    LET z   == n + 693899        \* days since 0000-03-01
        era == z \div 146097
        doe == z - era * 146097
        yoe == (doe - doe \div 1460 + doe \div 36524 - doe \div 146096) \div 365
        doy == doe - (365 * yoe + yoe \div 4 - yoe \div 100)
        mp  == (5 * doy + 2) \div 153
        d   == doy - (153 * mp + 2) \div 5 + 1
        m   == IF mp < 10 THEN mp + 3 ELSE mp - 9
        y   == yoe + era * 400 + (IF m <= 2 THEN 1 ELSE 0)
    IN  <<y, m, d>>

\* str(n).zfill(w)
RECURSIVE ZFill(_, _)
ZFill(s, w) == IF Len(s) >= w THEN s ELSE ZFill(<<"0">> \o s, w)

\* date.isoformat()
IsoFormat(d) ==
    ZFill(NatToStr(d[1]), 4) \o <<"-">> \o ZFill(NatToStr(d[2]), 2)
        \o <<"-">> \o ZFill(NatToStr(d[3]), 2)

\* s.split(c) for a one-character separator c.
RECURSIVE SplitOn(_, _)
SplitOn(s, c) ==
    IF \A i \in 1..Len(s) : s[i] # c THEN <<s>>
    ELSE LET k == CHOOSE i \in 1..Len(s) :
                      s[i] = c /\ \A j \in 1..(i - 1) : s[j] # c
         IN  <<SubSeq(s, 1, k - 1)>> \o SplitOn(SubSeq(s, k + 1, Len(s)), c)

AllDigits(s) == s # <<>> /\ \A i \in 1..Len(s) : IsDigit(s[i])

\* datetime.strptime(s, "%Y-%m-%d").date(): the date, or <<>> for
\* ValueError.  %Y takes exactly four digits, %m and %d one or two, and the
\* date must exist.
StrpDate(s) ==
    LET parts == SplitOn(s, "-")
    IN  IF Len(parts) # 3 THEN <<>>
        ELSE IF ~(AllDigits(parts[1]) /\ Len(parts[1]) = 4
                  /\ AllDigits(parts[2]) /\ Len(parts[2]) <= 2
                  /\ AllDigits(parts[3]) /\ Len(parts[3]) <= 2)
        THEN <<>>
        ELSE LET y == DigitsToNat(parts[1], 0)
                 m == DigitsToNat(parts[2], 0)
                 d == DigitsToNat(parts[3], 0)
             IN  IF y >= 1 /\ m \in 1..12 /\ d >= 1 /\ d <= DaysInMonth(y, m)
                 THEN <<y, m, d>>
                 ELSE <<>>

(***************************************************************************)
(* ingest_patents.  A spreadsheet is the sequence of dense rows that        *)
(* read_xlsx_rows yields from its first sheet, the header row first.        *)
(***************************************************************************)
NULL_VALUES ==
    { <<>>, <<"N","U","L","L">>, <<"n","u","l","l">>, <<"N","/","A">>, <<"n","/","a">> }

clean_cell(v0) ==
    LET v == Strip(v0) IN IF v \in NULL_VALUES THEN <<>> ELSE v

\* float(s) for a plain decimal numeral [sign] digits [. digits]:
\* ok (FALSE: ValueError), whether the value is <= 0, and int(value).
ParseFloat(s) ==
    LET neg   == s # <<>> /\ Head(s) = "-"
        body  == IF s # <<>> /\ Head(s) \in {"-", "+"} THEN Tail(s) ELSE s
        parts == SplitOn(body, ".")
        ip    == parts[1]
        fp    == IF Len(parts) = 2 THEN parts[2] ELSE <<>>
        digs  == \A i \in 1..Len(ip) : IsDigit(ip[i])
        fdigs == \A i \in 1..Len(fp) : IsDigit(fp[i])
        ok    == Len(parts) <= 2 /\ digs /\ fdigs /\ (ip # <<>> \/ fp # <<>>)
        zero  == (\A i \in 1..Len(ip) : ip[i] = "0") /\ (\A i \in 1..Len(fp) : fp[i] = "0")
    IN  [ ok     |-> ok,
          nonpos |-> ok /\ (neg \/ zero),
          int    |-> IF ok /\ ip # <<>> THEN DigitsToNat(ip, 0) ELSE 0 ]

excel_date_to_iso(s0) ==
    LET s == Strip(s0)
    IN  IF s = <<>> \/ s \in NULL_VALUES THEN <<>>
        ELSE LET v == ParseFloat(s)
             IN  IF ~v.ok THEN s
                 ELSE IF v.nonpos THEN <<>>
                 ELSE IsoFormat(DateFromSerial(v.int))

S_ApplicationNumber ==
    <<"A","p","p","l","i","c","a","t","i","o","n"," ","n","u","m","b","e","r">>
S_PublicationNumber ==
    <<"P","u","b","l","i","c","a","t","i","o","n"," ","n","u","m","b","e","r">>
S_ApplicantName == <<"A","p","p","l","i","c","a","n","t"," ","n","a","m","e">>
S_FilingDate == <<"F","i","l","i","n","g"," ","d","a","t","e">>
S_DateNotInForce ==
    <<"D","a","t","e"," ","n","o","t"," ","i","n"," ","f","o","r","c","e">>

\* One row of the patents table; of its 24 columns the model keeps those
\* the query engine searches or derives from.
PatentFromRow(headers, row, path) ==
    [ application_number |-> clean_cell(DictGet(headers, row, S_ApplicationNumber)),
      publication_number |-> clean_cell(DictGet(headers, row, S_PublicationNumber)),
      applicant_name     |-> clean_cell(DictGet(headers, row, S_ApplicantName)),
      filing_date        |->
          excel_date_to_iso(clean_cell(DictGet(headers, row, S_FilingDate))),
      date_not_in_force  |->
          excel_date_to_iso(clean_cell(DictGet(headers, row, S_DateNotInForce))),
      status             |-> clean_cell(DictGet(headers, row, S_Status)),
      source_file        |-> path ]

\* ingest_patents: every non-empty row after the header is inserted (the
\* patents table has no unique column); batching does not change the result.
RECURSIVE PatentRows(_, _, _)
PatentRows(x, i, acc) ==
    IF i > Len(x.rows) THEN acc
    ELSE IF x.rows[i] = <<>> THEN PatentRows(x, i + 1, acc)
    ELSE PatentRows(x, i + 1, Append(acc, PatentFromRow(x.rows[1], x.rows[i], x.path)))

ingest_patents(patents, x) ==
    IF x.rows = <<>> THEN patents ELSE PatentRows(x, 2, patents)

(***************************************************************************)
(* backend.py: the pure functions of the query engine.                      *)
(***************************************************************************)

\* re.split(r"[^0-9]+", s) without its empty parts: the maximal runs of
\* digits of s, in order.
RECURSIVE DigitRuns(_, _)
DigitRuns(s, cur) ==
    IF s = <<>> THEN (IF cur = <<>> THEN <<>> ELSE <<cur>>)
    ELSE IF IsDigit(Head(s)) THEN DigitRuns(Tail(s), Append(cur, Head(s)))
    ELSE (IF cur = <<>> THEN <<>> ELSE <<cur>>) \o DigitRuns(Tail(s), <<>>)

parse_classes(s) == IF s = <<>> THEN <<>> ELSE DigitRuns(s, <<>>)

InactiveStatuses ==
    { <<"d","e","a","d">>, <<"e","x","p","i","r","e","d">>,
      <<"w","i","t","h","d","r","a","w","n">>, <<"r","e","v","o","k","e","d">>,
      <<"c","a","n","c","e","l","l","e","d">>, <<"r","e","m","o","v","e","d">> }

\* is_active(status, expired) on the UTC date today (now_date()).
is_active(status, expired, today) ==
    LET status_norm == Lower(Strip(status))
    IN  IF status_norm \in InactiveStatuses THEN FALSE
        ELSE IF expired # <<>>
        THEN LET exp == StrpDate(expired)
             IN  IF exp # <<>> /\ DateLess(exp, today) THEN FALSE ELSE TRUE
        ELSE TRUE

PatentInactiveWords ==
    { <<"l","a","p","s","e","d">>, <<"c","e","a","s","e","d">>,
      <<"w","i","t","h","d","r","a","w","n">>, <<"r","e","v","o","k","e","d">> }

patent_active(status, date_not_in_force) ==
    LET st == Lower(Strip(status))
    IN  IF date_not_in_force # <<>> THEN FALSE
        ELSE IF \E x \in PatentInactiveWords : Contains(st, x) THEN FALSE
        ELSE TRUE

\* difflib.SequenceMatcher(None, a, b) without junk (autojunk only acts on
\* sequences of 200 elements or more).  Positions are 1-based, ranges
\* lo..hi inclusive.
RECURSIVE RunLength(_, _, _, _, _, _)
RunLength(a, i, ahi, b, j, bhi) ==
    IF i > ahi \/ j > bhi \/ a[i] # b[j] THEN 0
    ELSE 1 + RunLength(a, i + 1, ahi, b, j + 1, bhi)

\* find_longest_match: the longest common block, and of those the one
\* starting earliest in a, then earliest in b.  k = 0: no common element.
find_longest_match(a, alo, ahi, b, blo, bhi) ==
    LET cand == { <<i, j, RunLength(a, i, ahi, b, j, bhi)>> :
                      i \in alo..ahi, j \in blo..bhi }
        best == CHOOSE c \in cand :
                    \A d \in cand :
                        \/ c[3] > d[3]
                        \/ c[3] = d[3] /\ c[1] < d[1]
                        \/ c[3] = d[3] /\ c[1] = d[1] /\ c[2] <= d[2]
    IN  IF cand = {} THEN <<alo, blo, 0>> ELSE best

\* The total size of get_matching_blocks(): the longest block, then the
\* same to its left and to its right.
RECURSIVE MatchTotal(_, _, _, _, _, _)
MatchTotal(a, alo, ahi, b, blo, bhi) ==
    IF alo > ahi \/ blo > bhi THEN 0
    ELSE LET m == find_longest_match(a, alo, ahi, b, blo, bhi)
         IN  IF m[3] = 0 THEN 0
             ELSE m[3] + MatchTotal(a, alo, m[1] - 1, b, blo, m[2] - 1)
                       + MatchTotal(a, m[1] + m[3], ahi, b, m[2] + m[3], bhi)

\* Similarities are kept in units of 1/10000, as round(sim, 4) leaves them.
SIM_ONE == 10000

\* round(num / den, 4) in units of 1/10000, ties to even.
Round4(num, den) ==
    LET q == (num * SIM_ONE) \div den
        r == (num * SIM_ONE) % den
    IN  IF 2 * r > den \/ (2 * r = den /\ q % 2 = 1) THEN q + 1 ELSE q

\* round(similarity(a, b), 4)
similarity(a, b) ==
    IF a = <<>> \/ b = <<>> THEN 0
    ELSE IF a = b THEN SIM_ONE
    ELSE Round4(2 * MatchTotal(a, 1, Len(a), b, 1, Len(b)), Len(a) + Len(b))

resolve_countries(country) ==
    LET c == Lower(Strip(country))
    IN  IF c \in { <<"a","l","l">>, <<"a","l","l"," ","c","o","u","n","t","r","i","e","s">>,
                   <<"a","n","y">> }
        THEN <<S_UnitedKingdom, S_EuropeanUnion, S_UnitedStates, S_RestOfWorld>>
        ELSE IF c \in { <<"u","k">>, Lower(S_UnitedKingdom), <<"u","k"," ","o","n","l","y">> }
        THEN <<S_UnitedKingdom>>
        ELSE IF c \in { <<"e","u">>, Lower(S_EuropeanUnion), <<"e","u"," ","o","n","l","y">> }
        THEN <<S_EuropeanUnion>>
        ELSE IF c \in { <<"u","s">>, Lower(S_UnitedStates), <<"u","s"," ","o","n","l","y">> }
        THEN <<S_UnitedStates>>
        ELSE IF c \in { <<"u","k"," ","&"," ","e","u">>, <<"u","k"," ","a","n","d"," ","e","u">>,
                        <<"u","k","+","e","u">> }
        THEN <<S_UnitedKingdom, S_EuropeanUnion>>
        ELSE IF c \in { Lower(S_RestOfWorld), <<"r","o","w">>, <<"w","o","r","l","d">> }
        THEN <<S_RestOfWorld>>
        ELSE <<country>>

\* country_available: SELECT 1 FROM marks WHERE country IN (...) LIMIT 1
country_available(marks, country) ==
    LET countries == Range(resolve_countries(country))
    IN  \E i \in DOMAIN marks : marks[i].country \in countries

\* The LIKE operator under PRAGMA case_sensitive_like=ON (open_db): % is
\* any run of characters, _ any one character, every other character of
\* the pattern matches itself only.
RECURSIVE Like(_, _)
Like(s, pat) ==
    IF pat = <<>> THEN s = <<>>
    ELSE IF Head(pat) = "%"
    THEN \E k \in 0..Len(s) : Like(SubSeq(s, k + 1, Len(s)), Tail(pat))
    ELSE /\ s # <<>>
         /\ Head(pat) = "_" \/ Head(pat) = Head(s)
         /\ Like(Tail(s), Tail(pat))

\* The rowids of a table, ascending.
RowIds(table) == [i \in 1..Len(table) |-> i]

\* The subsets of S with k elements.
RECURSIVE KSubsets(_, _)
KSubsets(S, k) ==
    IF k = 0 THEN {{}}
    ELSE UNION { { T \cup {x} : T \in KSubsets({y \in S : y > x}, k - 1) } : x \in S }

\* LIMIT n on a SELECT without ORDER BY: all the matching rows when there
\* are at most n, else any n of them.  (The model lists a result in rowid
\* order; nothing below depends on the order the database returns.)
LimitChoices(ids, n) ==
    IF Len(ids) <= n THEN {ids}
    ELSE { SelectSeq(ids, LAMBDA i : i \notin D) : D \in KSubsets(Range(ids), Len(ids) - n) }

\* The default of the limit parameter of query_candidates and query_patents.
DEFAULT_LIMIT == 25

\* query_candidates, tier 1: mark_text_norm = term_norm in the country set.
ExactIds(marks, term_norm, country) ==
    LET countries == Range(resolve_countries(country))
    IN  SelectSeq(RowIds(marks),
                  LAMBDA i : /\ marks[i].country \in countries
                             /\ marks[i].mark_text_norm = term_norm)

\* query_candidates, tier 2: mark_text_norm LIKE term_norm || '%'.
PrefixIds(marks, term_norm, country) ==
    LET countries == Range(resolve_countries(country))
        like == Append(term_norm, "%")
    IN  SelectSeq(RowIds(marks),
                  LAMBDA i : /\ marks[i].country \in countries
                             /\ Like(marks[i].mark_text_norm, like))

\* The shortest term_norm for which a prefix scan is made.
MIN_PREFIX_LEN == 4

\* query_patents: the prefix scan over three columns.
PatentIds(patents, term_norm) ==
    LET like == Append(term_norm, "%")
    IN  SelectSeq(RowIds(patents),
                  LAMBDA i : \/ Like(patents[i].applicant_name, like)
                             \/ Like(patents[i].application_number, like)
                             \/ Like(patents[i].publication_number, like))

summarize_mark(row, term_norm, today) ==
    LET mark_text == row.mark_text
    IN  [ reg_no      |-> row.reg_no,
          mark_text   |-> mark_text,
          owner_name  |-> row.owner_name,
          owner_type  |-> row.owner_type,
          country     |-> row.country,
          status      |-> row.status,
          expired     |-> row.expired,
          active      |-> is_active(row.status, row.expired, today),
          class_codes |-> IF row.class_codes # <<>>
                          THEN SplitOn(row.class_codes, ",") ELSE <<>>,
          similarity  |-> similarity(term_norm, norm_text(mark_text)) ]

summarize_patent(row, term_norm) ==
    [ application_number |-> row.application_number,
      publication_number |-> row.publication_number,
      applicant_name     |-> row.applicant_name,
      status             |-> row.status,
      filing_date        |-> row.filing_date,
      date_not_in_force  |-> row.date_not_in_force,
      active             |-> patent_active(row.status, row.date_not_in_force),
      similarity         |-> IF row.applicant_name # <<>>
                             THEN similarity(term_norm, norm_text(row.applicant_name))
                             ELSE 0 ]

SortKeyBySimilarity(m) == m.similarity

\* The sort key (m["active"], m["similarity"]) as one number: tuples
\* compare by their first component, then by their second.
SortKey(m) == (IF m.active THEN SIM_ONE + 1 ELSE 0) + m.similarity

\* list.sort(key=..., reverse=True): a stable sort, greatest key first;
\* items with equal keys keep their order.
RECURSIVE InsertDesc(_, _)
InsertDesc(sorted, m) ==
    IF sorted = <<>> THEN <<m>>
    ELSE IF SortKey(Head(sorted)) >= SortKey(m)
    THEN <<Head(sorted)>> \o InsertDesc(Tail(sorted), m)
    ELSE <<m>> \o sorted

RECURSIVE SortDesc(_)
SortDesc(ms) ==
    IF ms = <<>> THEN <<>>
    ELSE InsertDesc(SortDesc(SubSeq(ms, 1, Len(ms) - 1)), ms[Len(ms)])

\* The cap on each list of the response.
TOP_N == 50

STRONG == 9200
MEDIUM == 8500

\* The loop of score_risk: the counts <<active_strong, active_medium>>.
RECURSIVE RiskCounts(_, _, _)
RiskCounts(matches, class_filter, acc) ==
    IF matches = <<>> THEN acc
    ELSE LET m == Head(matches)
             skip == class_filter # <<>>
                     /\ Range(class_filter) \cap Range(m.class_codes) = {}
             acc2 == IF skip THEN acc
                     ELSE IF m.active /\ m.similarity >= STRONG
                     THEN <<acc[1] + 1, acc[2]>>
                     ELSE IF m.active /\ m.similarity >= MEDIUM
                     THEN <<acc[1], acc[2] + 1>>
                     ELSE acc
         IN  RiskCounts(Tail(matches), class_filter, acc2)

score_risk_medium_first(matches, class_filter) ==
    LET c == RiskCounts(matches, class_filter, <<0, 0>>)
    IN  IF c[2] > 0 THEN "medium"
        ELSE IF c[1] > 0 THEN "high"
        ELSE "low"

score_risk(matches, class_filter) ==
    LET c == RiskCounts(matches, class_filter, <<0, 0>>)
    IN  IF c[1] > 0 THEN "high"
        ELSE IF c[2] > 0 THEN "medium"
        ELSE "low"

(***************************************************************************)
(* The source files of the model.  Each text file is given by the rows its  *)
(* bytes hold and by its encoding, from which the outcome of every decoding *)
(* attempt follows.                                                         *)
(***************************************************************************)
RowsA ==
    << << <<"T","r","a","d","e"," ","M","a","r","k">>,
          <<"M","a","r","k"," ","T","e","x","t">>, <<"N","a","m","e">>,
          <<"C","o","u","n","t","r","y">>, <<"S","t","a","t","u","s">> >>,
       << <<"U","K","1">>, <<"A","c","m","e">>,
          <<"A","c","m","e"," ","L","t","d">>,
          <<"U","n","i","t","e","d"," ","K","i","n","g","d","o","m">>,
          <<"R","e","g","i","s","t","e","r","e","d">> >>,
       <<>>,
       << <<"U","K","2">>, <<"A","c","m","e"," ","C","o">>, <<"B","o","b">>,
          <<"U","n","i","t","e","d"," ","K","i","n","g","d","o","m">>,
          <<"D","e","a","d">> >>,
       << <<"U","K","1">>, <<"O","t","h","e","r">>, <<"A","l">>,
          <<"U","n","i","t","e","d"," ","S","t","a","t","e","s">>,
          <<"R","e","g","i","s","t","e","r","e","d">> >> >>

RowsB ==
    << << <<" ","M","a","r","k"," ","T","e","x","t">>,
          <<"T","r","a","d","e"," ","M","a","r","k">>,
          <<"C","o","u","n","t","r","y">>, <<"C","l","a","s","s"," ","9">>,
          <<"C","l","a","s","s","1","0">> >>,
       << <<"Z","e","d","-","X">>, <<" ","U","K","2"," ">>,
          <<"U","n","i","t","e","d"," ","S","t","a","t","e","s">>, <<"1">>,
          <<"N","o">> >>,
       << <<"S","o","l","o">>, <<"U","K","3">> >>,
       << <<"A","c","m","e"," "," ","R","o","c","k","e","t","!">>,
          <<"U","K","4">>,
          <<"U","n","i","t","e","d"," ","S","t","a","t","e","s">>, <<"0">>,
          <<"Y">>, <<"e","x","t","r","a">> >> >>

RowsC ==
    << << <<"T","r","a","d","e"," ","M","a","r","k">>,
          <<"N","a","m","e">> >>,
       << <<"U","K","8">>, <<"B","o","b">> >> >>

RowsD ==
    << << <<"T","r","a","d","e"," ","M","a","r","k">>,
          <<"M","a","r","k"," ","T","e","x","t">>,
          <<"C","o","u","n","t","r","y">> >>,
       << <<"U","K","5">>, <<"A","c","m","e">>,
          <<"U","n","i","t","e","d"," ","S","t","a","t","e","s">> >>,
       << <<"U","K","6">>, <<"Z","e","d">>,
          <<"U","n","i","t","e","d"," ","S","t","a","t","e","s">> >> >>

RowsP ==
    << << <<"A","p","p","l","i","c","a","t","i","o","n"," ","n","u","m","b","e","r">>,
          <<"A","p","p","l","i","c","a","n","t"," ","n","a","m","e">>,
          <<"D","a","t","e"," ","n","o","t"," ","i","n"," ","f","o","r","c","e">>,
          <<"S","t","a","t","u","s">> >>,
       << <<"G","B","1","0","0">>,
          <<"A","c","m","e"," ","R","o","b","o","t","i","c","s"," ","L","t","d">>,
          <<>>, <<"G","r","a","n","t","e","d">> >>,
       <<>>,
       << <<"G","B","1","0","1">>,
          <<"A","c","m","e"," ","R","o","b","o","t","i","c","s"," ","L","t","d">>,
          <<"N","U","L","L">>, <<"G","r","a","n","t","e","d">> >>,
       << <<"a","c","m","e","7","7">>, <<"Z","e","d"," ","p","l","c">>,
          <<"4","5","0","0","0">>, <<"C","e","a","s","e","d">> >> >>

\* What an encoding makes of bytes it cannot decode (the first read
\* raises UnicodeDecodeError) and of bytes it decodes to other characters.
Undecodable == [rows |-> <<>>, fail |-> 0]
Garbled == [rows |-> << << <<"?">> >> >>, fail |-> NoFail]

\* A UTF-16 file with a byte-order mark.  "utf-16" consumes the mark,
\* "utf-16-le" decodes it as a character of the first header cell; fail
\* is where both raise (a truncated code unit at the end of the file).
Utf16BomFile(path, rows, fail) ==
    [ path |-> path,
      dec  |-> << [rows |-> rows, fail |-> fail],
                  [rows |-> [rows EXCEPT ![1][1] = <<BOM>> \o @], fail |-> fail],
                  Garbled,
                  Undecodable >> ]

\* A UTF-16 big-endian file without a mark: "utf-16" and "utf-16-le" read
\* it in the wrong byte order.
Utf16BeFile(path, rows, fail) ==
    [ path |-> path,
      dec  |-> << Garbled, Garbled, [rows |-> rows, fail |-> fail], Undecodable >> ]

\* A UTF-8 file: the three UTF-16 decoders make other characters of it.
Utf8File(path, rows, fail) ==
    [ path |-> path,
      dec  |-> << Garbled, Garbled, Garbled, [rows |-> rows, fail |-> fail] >> ]

FileA == Utf16BomFile("a.txt", RowsA, NoFail)
FileB == Utf8File("b.txt", RowsB, NoFail)
\* Passes the "Trade Mark|" sniff of is_trademark_text_file, has no Mark Text.
FileC == Utf8File("c.txt", RowsC, NoFail)
\* Ends in half a code unit: the decoder raises after the last row.
FileD == Utf16BomFile("d.txt", RowsD, Len(RowsD))

TxtCatalogue == {FileA, FileB, FileC, FileD}

JournalX ==
    [ path  |-> "j.xml",
      elems |-> <<
        [ RegistrationNumber |-> <<"U","K","1">>,
          RegistrationOfficeCode |-> <<"G","B">>,
          MarkVerbalElementText |-> <<" ","J","o","u","r","n","a","l"," ">>,
          ApplicantName |-> <<"X"," ","&"," ","Y">>,
          goods |-> << [ClassNumber |-> <<"9">>, Description |-> <<"s","o","f","t">>],
                       [ClassNumber |-> <<>>, Description |-> <<>>],
                       [ClassNumber |-> <<" ","4","2">>, Description |-> <<"w","e","b">>] >> ],
        [ RegistrationNumber |-> <<"0","1","7">>,
          RegistrationOfficeCode |-> <<"e","m">>,
          MarkVerbalElementText |-> <<>>,
          ApplicantName |-> <<>>,
          goods |-> <<>> ],
        [ RegistrationNumber |-> <<"0","1","7">>,
          RegistrationOfficeCode |-> <<>>,
          MarkVerbalElementText |-> <<"L","a","t","e","r">>,
          ApplicantName |-> <<"Z","e","d"," ","G","m","b","H">>,
          goods |-> <<>> ] >> ]

SheetP == [path |-> "p.xlsx", rows |-> RowsP]

\* The index of an earlier, complete run.
PrevIndex ==
    [ exists |-> TRUE, schema |-> TRUE, fts |-> TRUE,
      marks  |-> ingest_file(<<>>, FileB).marks,
      patents |-> <<>> ]

NoIndex ==
    [exists |-> FALSE, schema |-> FALSE, fts |-> FALSE, marks |-> <<>>, patents |-> <<>>]

\* The most text files one run discovers.
MaxTxtFiles == 2

\* The lists of at most n distinct members of S.
FileLists(S, n) ==
    { s \in UNION {[1..k -> S] : k \in 0..n} :
        \A i, j \in DOMAIN s : i # j => s[i] # s[j] }

(***************************************************************************)
(* State.                                                                   *)
(*                                                                          *)
(* The ingestion run (build_index.main) and the index file:                 *)
(*   txt_files, xlsx_files, xml_files  what the three discover_* calls find *)
(*   pc, idx     main's position and the index of its current loop          *)
(*   disk        the index file at DB_PATH as a reader finds it: whether it *)
(*               exists, whether the tables exist, the committed rows       *)
(*   con         main's connection: the rows as the writer sees them, its   *)
(*               own uncommitted inserts included                           *)
(*   ingested    every record handed to insert_batch so far, in order       *)
(*   files_done  the paths whose ingestion call returned                    *)
(*   seen        what the latest query found on opening the index           *)
(***************************************************************************)
VARIABLES txt_files, xlsx_files, xml_files, pc, idx, disk, con, ingested,
          files_done, seen

(***************************************************************************)
(* One call of the generator read_rows(path), resumed item by item:         *)
(*   rd_file   the file; rd_gen  the generator's state                      *)
(*   rd_out    the items yielded so far, each with the encoding that        *)
(*             produced it and whether it was yielded as the header         *)
(*   rd_state  "idle", "running", "returned" or "raised"                    *)
(***************************************************************************)
VARIABLES rd_file, rd_gen, rd_out, rd_state

readVars == <<rd_file, rd_gen, rd_out, rd_state>>

(***************************************************************************)
(* One request to backend.check, against the index in disk:                 *)
(*   q_pc        check's position                                           *)
(*   q_req       the payload: trademark, country, classes, include_patents  *)
(*   q_term_norm norm_text of the trimmed trademark                         *)
(*   q_con       the connection of open_db: "none", "open" or "closed"      *)
(*   q_lookups   the SELECTs of query_candidates executed so far, in order  *)
(*   q_exact     the rows the exact tier returned                           *)
(*   q_rows, q_patent_rows  the results of query_candidates, query_patents  *)
(*               (rowids)                                                   *)
(*   q_resp      the response                                               *)
(***************************************************************************)
VARIABLES q_pc, q_req, q_term_norm, q_con, q_lookups, q_exact, q_rows,
          q_patent_rows, q_resp

queryVars == <<q_pc, q_req, q_term_norm, q_con, q_lookups, q_exact, q_rows,
               q_patent_rows, q_resp>>

(***************************************************************************)
(* One call of a pure function of backend.py:                               *)
(*   ev_fn   the function called, "idle" when there is no call              *)
(*   ev_in   its arguments                                                  *)
(*   ev_out  <<>> until it returns, then <<the value returned>>             *)
(***************************************************************************)
VARIABLES ev_fn, ev_in, ev_out

evalVars == <<ev_fn, ev_in, ev_out>>

(***************************************************************************)
(* ensure_index in one server process with TRADEMARK_DB_URL set; the index  *)
(* file at DB_PATH is disk:                                                 *)
(*   download_attempted  the global _download_attempted                     *)
(*   download_lock       the thread holding _download_lock, 0 for none      *)
(*   tmp_file            the file at DB_PATH.with_suffix(".download")       *)
(*   e_pc, e_ret, e_calls  per thread: its position in ensure_index, what   *)
(*                       its last call returned, how many calls it made     *)
(*   n_downloads         how many times urlretrieve has been started        *)
(*   removed             whether the index file has been deleted from       *)
(*                       outside the server                                 *)
(***************************************************************************)
VARIABLES download_attempted, download_lock, tmp_file, e_pc, e_ret, e_calls,
          n_downloads, removed

ensureVars == <<download_attempted, download_lock, tmp_file, e_pc, e_ret,
                e_calls, n_downloads, removed>>

buildVars == <<txt_files, xlsx_files, xml_files, pc, idx, disk, con, ingested,
               files_done, seen>>

NotSeen == [kind |-> "none"]

ReadIdle ==
    /\ rd_file = [path |-> "", dec |-> <<>>]
    /\ rd_gen = GenStart
    /\ rd_out = <<>>
    /\ rd_state = "idle"

NoRequest == [trademark |-> <<>>, country |-> <<>>, classes |-> <<>>,
              include_patents |-> FALSE]
NoResponse == [code |-> 0]

QueryIdle ==
    /\ q_pc = "idle"
    /\ q_req = NoRequest
    /\ q_term_norm = <<>>
    /\ q_con = "none"
    /\ q_lookups = <<>>
    /\ q_exact = <<>>
    /\ q_rows = <<>>
    /\ q_patent_rows = <<>>
    /\ q_resp = NoResponse

EnsureIdle ==
    /\ download_attempted = FALSE
    /\ download_lock = 0
    /\ tmp_file = NoIndex
    /\ e_pc = <<>>
    /\ e_ret = <<>>
    /\ e_calls = <<>>
    /\ n_downloads = 0
    /\ removed = FALSE

EvalIdle ==
    /\ ev_fn = "idle"
    /\ ev_in = <<>>
    /\ ev_out = <<>>

BuildInit ==
    /\ ReadIdle
    /\ QueryIdle
    /\ EnsureIdle
    /\ EvalIdle
    /\ txt_files \in FileLists(TxtCatalogue, MaxTxtFiles)
    /\ xlsx_files \in {<<>>, <<SheetP>>}
    /\ xml_files \in {<<>>, <<JournalX>>}
    /\ disk \in {NoIndex, PrevIndex}
    /\ pc = "discover"
    /\ idx = 1
    /\ con = [open |-> FALSE, marks |-> <<>>, patents |-> <<>>, fts |-> FALSE]
    /\ ingested = <<>>
    /\ files_done = {}
    /\ seen = NotSeen

\* main, lines 575-581: nothing to ingest ends the run before the index is
\* touched.
MainDiscover ==
    /\ pc = "discover"
    /\ pc' = IF txt_files = <<>> /\ xlsx_files = <<>> /\ xml_files = <<>>
             THEN "nofiles" ELSE "unlink"
    /\ UNCHANGED <<readVars, queryVars, evalVars, ensureVars>>
    /\ UNCHANGED <<txt_files, xlsx_files, xml_files, idx, disk, con, ingested,
                   files_done, seen>>

\* main, lines 583-584: the previous index is deleted in place.
MainUnlink ==
    /\ pc = "unlink"
    /\ disk' = IF disk.exists THEN NoIndex ELSE disk
    /\ pc' = "connect"
    /\ UNCHANGED <<readVars, queryVars, evalVars, ensureVars>>
    /\ UNCHANGED <<txt_files, xlsx_files, xml_files, idx, con, ingested,
                   files_done, seen>>

\* connect_db: sqlite3.connect and PRAGMA journal_mode=WAL create the file
\* at DB_PATH, with no table in it.
MainConnect ==
    /\ pc = "connect"
    /\ disk' = [NoIndex EXCEPT !.exists = TRUE]
    /\ con' = [open |-> TRUE, marks |-> <<>>, patents |-> <<>>, fts |-> FALSE]
    /\ pc' = "schema"
    /\ UNCHANGED <<readVars, queryVars, evalVars, ensureVars>>
    /\ UNCHANGED <<txt_files, xlsx_files, xml_files, idx, ingested, files_done, seen>>

\* setup_schema: the CREATE statements run outside a transaction, so the
\* empty tables are committed at once.
MainSetupSchema ==
    /\ pc = "schema"
    /\ disk' = [disk EXCEPT !.schema = TRUE]
    /\ pc' = "txt"
    /\ idx' = 1
    /\ UNCHANGED <<readVars, queryVars, evalVars, ensureVars>>
    /\ UNCHANGED <<txt_files, xlsx_files, xml_files, con, ingested, files_done, seen>>

\* for path in files: ingest_file(con, path).  The first INSERT opens the
\* transaction that only con.commit() ends, so disk is unchanged.  A
\* ValueError from read_rows is caught nowhere: it ends main.
MainIngestFile ==
    /\ pc = "txt"
    /\ idx <= Len(txt_files)
    /\ LET r == ingest_file(con.marks, txt_files[idx])
       IN  /\ con' = [con EXCEPT !.marks = r.marks]
           /\ ingested' = ingested \o r.ins
           /\ IF r.raised
              THEN /\ pc' = "aborted"
                   /\ UNCHANGED <<idx, files_done>>
              ELSE /\ idx' = idx + 1
                   /\ files_done' = files_done \cup {txt_files[idx].path}
                   /\ UNCHANGED pc
    /\ UNCHANGED <<readVars, queryVars, evalVars, ensureVars>>
    /\ UNCHANGED <<txt_files, xlsx_files, xml_files, disk, seen>>

MainTxtDone ==
    /\ pc = "txt"
    /\ idx > Len(txt_files)
    /\ pc' = "xlsx"
    /\ idx' = 1
    /\ UNCHANGED <<readVars, queryVars, evalVars, ensureVars>>
    /\ UNCHANGED <<txt_files, xlsx_files, xml_files, disk, con, ingested,
                   files_done, seen>>

\* for path in xlsx_files: ingest_patents(con, path)
MainIngestPatents ==
    /\ pc = "xlsx"
    /\ idx <= Len(xlsx_files)
    /\ con' = [con EXCEPT !.patents = ingest_patents(con.patents, xlsx_files[idx])]
    /\ files_done' = files_done \cup {xlsx_files[idx].path}
    /\ idx' = idx + 1
    /\ UNCHANGED <<readVars, queryVars, evalVars, ensureVars>>
    /\ UNCHANGED <<txt_files, xlsx_files, xml_files, pc, disk, ingested, seen>>

MainXlsxDone ==
    /\ pc = "xlsx"
    /\ idx > Len(xlsx_files)
    /\ pc' = "xml"
    /\ idx' = 1
    /\ UNCHANGED <<readVars, queryVars, evalVars, ensureVars>>
    /\ UNCHANGED <<txt_files, xlsx_files, xml_files, disk, con, ingested,
                   files_done, seen>>

\* for path in xml_files: ingest_journal_xml(con, path)
MainIngestJournal ==
    /\ pc = "xml"
    /\ idx <= Len(xml_files)
    /\ LET r == ingest_journal_xml(con.marks, xml_files[idx])
       IN  /\ con' = [con EXCEPT !.marks = r.marks]
           /\ ingested' = ingested \o r.ins
    /\ files_done' = files_done \cup {xml_files[idx].path}
    /\ idx' = idx + 1
    /\ UNCHANGED <<readVars, queryVars, evalVars, ensureVars>>
    /\ UNCHANGED <<txt_files, xlsx_files, xml_files, pc, disk, seen>>

MainXmlDone ==
    /\ pc = "xml"
    /\ idx > Len(xml_files)
    /\ pc' = "fts"
    /\ UNCHANGED <<readVars, queryVars, evalVars, ensureVars>>
    /\ UNCHANGED <<txt_files, xlsx_files, xml_files, idx, disk, con, ingested,
                   files_done, seen>>

\* rebuild_fts, inside the open transaction.
MainRebuildFts ==
    /\ pc = "fts"
    /\ con' = [con EXCEPT !.fts = TRUE]
    /\ pc' = "commit"
    /\ UNCHANGED <<readVars, queryVars, evalVars, ensureVars>>
    /\ UNCHANGED <<txt_files, xlsx_files, xml_files, idx, disk, ingested,
                   files_done, seen>>

\* con.commit(); con.close(): everything the run inserted becomes visible
\* in one step.
MainCommit ==
    /\ pc = "commit"
    /\ disk' = [exists |-> TRUE, schema |-> TRUE, fts |-> con.fts,
                marks |-> con.marks, patents |-> con.patents]
    /\ con' = [con EXCEPT !.open = FALSE]
    /\ pc' = "done"
    /\ UNCHANGED <<readVars, queryVars, evalVars, ensureVars>>
    /\ UNCHANGED <<txt_files, xlsx_files, xml_files, idx, ingested, files_done, seen>>

\* A request arrives (backend.check): has_index(), then open_db() and the
\* first SELECT, which reads the committed state of the file.
QueryOpen ==
    /\ seen' = IF ~disk.exists THEN [kind |-> "absent"]
               ELSE IF ~disk.schema THEN [kind |-> "no_table"]
               ELSE [kind |-> "rows", marks |-> disk.marks, patents |-> disk.patents]
    /\ seen' # seen
    /\ UNCHANGED <<readVars, queryVars, evalVars, ensureVars>>
    /\ UNCHANGED <<txt_files, xlsx_files, xml_files, pc, idx, disk, con, ingested,
                   files_done>>

BuildNext ==
    \/ MainDiscover \/ MainUnlink \/ MainConnect \/ MainSetupSchema
    \/ MainIngestFile \/ MainTxtDone \/ MainIngestPatents \/ MainXlsxDone
    \/ MainIngestJournal \/ MainXmlDone \/ MainRebuildFts \/ MainCommit
    \/ QueryOpen

vars == <<buildVars, readVars, queryVars, evalVars, ensureVars>>

SpecBuild == BuildInit /\ [][BuildNext]_vars

(***************************************************************************)
(* Claims about the ingestion run.                                          *)
(***************************************************************************)

\* What a run that ingests every discovered file commits: the marks and
\* patents of all files in main's order, and whether some ingest_file raises.
RECURSIVE AllTxt(_, _, _)
AllTxt(marks, files, i) ==
    IF i > Len(files) THEN [marks |-> marks, raised |-> FALSE]
    ELSE LET r == ingest_file(marks, files[i])
         IN  IF r.raised THEN [marks |-> r.marks, raised |-> TRUE]
             ELSE AllTxt(r.marks, files, i + 1)

RECURSIVE AllJournals(_, _, _)
AllJournals(marks, files, i) ==
    IF i > Len(files) THEN marks
    ELSE AllJournals(ingest_journal_xml(marks, files[i]).marks, files, i + 1)

RECURSIVE AllPatents(_, _, _)
AllPatents(patents, files, i) ==
    IF i > Len(files) THEN patents
    ELSE AllPatents(ingest_patents(patents, files[i]), files, i + 1)

CompleteMarks == AllJournals(AllTxt(<<>>, txt_files, 1).marks, xml_files, 1)
CompletePatents == AllPatents(<<>>, xlsx_files, 1)

\* C1: a query that can open the index finds in it either the complete
\* previous build or the complete new build, never anything in between.
C1_QuerySeesCompleteIndex ==
    seen.kind \in {"no_table", "rows"} =>
        /\ seen.kind = "rows"
        /\ \/ seen.marks = PrevIndex.marks /\ seen.patents = PrevIndex.patents
           \/ seen.marks = CompleteMarks /\ seen.patents = CompletePatents

\* The record that was handed to insert_batch first among those with
\* registration number k.
FirstIngested(k) ==
    ingested[CHOOSE i \in DOMAIN ingested :
                /\ ingested[i].reg_no = k
                /\ \A j \in 1..(i - 1) : ingested[j].reg_no # k]

\* C2: after any sequence of ingestions the marks table holds exactly one
\* row per distinct reg_no handed to insert_batch, and that row is the
\* first record ingested with that reg_no.
C2_DedupFirstWins ==
    /\ \A i, j \in DOMAIN con.marks :
           con.marks[i].reg_no = con.marks[j].reg_no => i = j
    /\ {con.marks[i].reg_no : i \in DOMAIN con.marks}
           = {ingested[i].reg_no : i \in DOMAIN ingested}
    /\ \A i \in DOMAIN con.marks : con.marks[i] = FirstIngested(con.marks[i].reg_no)

\* C2's case: a committed run in which two different files brought the same
\* reg_no with different field values.
C2_Witness ==
    /\ pc = "done"
    /\ disk.marks = con.marks
    /\ \E i, j \in DOMAIN ingested :
           /\ i < j
           /\ ingested[i].reg_no = ingested[j].reg_no
           /\ ingested[i].source_file # ingested[j].source_file
           /\ ingested[i].mark_text # ingested[j].mark_text

\* The marks tables of a state: the one the writing connection sees, the
\* one on disk and the one a query has read.
MarksTables ==
    {con.marks, disk.marks} \cup (IF seen.kind = "rows" THEN {seen.marks} ELSE {})

\* C11: every record of the marks table, after any sequence of ingestions
\* from delimited-text files and XML journals, has mark_text_norm equal to
\* norm_text(mark_text).
C11_NormMatchesText ==
    \A t \in MarksTables :
        \A i \in DOMAIN t : t[i].mark_text_norm = norm_text(t[i].mark_text)

\* A committed index holding a mark from a text file whose normalized text
\* is neither its text nor its text in lower case, and a mark from the
\* journal whose normalized text differs from its text.
C11_Witness ==
    /\ pc = "done"
    /\ \E i \in DOMAIN disk.marks :
           /\ disk.marks[i].source_file # JournalX.path
           /\ disk.marks[i].mark_text_norm \notin
                  {disk.marks[i].mark_text, Lower(disk.marks[i].mark_text)}
    /\ \E i \in DOMAIN disk.marks :
           /\ disk.marks[i].source_file = JournalX.path
           /\ disk.marks[i].mark_text_norm # disk.marks[i].mark_text

\* read_rows(f) raises its ValueError without having yielded anything:
\* every encoding attempt failed.
FailsEveryEncoding(f) == read_rows_next(f, GenStart).kind = "raise"

\* C3: a run in which a discovered text file fails every encoding attempt
\* still ends with every other file ingested, the full-text structure
\* rebuilt and the index committed.
C3_FailedFileDoesNotAbort ==
    ( /\ pc \in {"done", "aborted"}
      /\ \E i \in DOMAIN txt_files : FailsEveryEncoding(txt_files[i]) )
    => /\ pc = "done"
       /\ disk.fts
       /\ disk.marks = con.marks
       /\ \A i \in DOMAIN txt_files :
              ~FailsEveryEncoding(txt_files[i]) => txt_files[i].path \in files_done
       /\ \A i \in DOMAIN xlsx_files : xlsx_files[i].path \in files_done
       /\ \A i \in DOMAIN xml_files : xml_files[i].path \in files_done

(***************************************************************************)
(* read_rows on its own: every file shape of the model, failing at every    *)
(* point of its rows or nowhere, read to the end.                           *)
(***************************************************************************)
BuildIdle ==
    /\ txt_files = <<>>
    /\ xlsx_files = <<>>
    /\ xml_files = <<>>
    /\ pc = "idle"
    /\ idx = 1
    /\ disk = NoIndex
    /\ con = [open |-> FALSE, marks |-> <<>>, patents |-> <<>>, fts |-> FALSE]
    /\ ingested = <<>>
    /\ files_done = {}
    /\ seen = NotSeen

FailPoints(rows) == {NoFail} \cup (0..Len(rows))

ReadCatalogue ==
    UNION { { Utf16BomFile("t.txt", rows, k), Utf16BeFile("t.txt", rows, k),
              Utf8File("t.txt", rows, k) } :
            <<rows, k>> \in UNION { {r} \X FailPoints(r) :
                                    r \in {RowsA, RowsB, RowsC, RowsD} } }

ReadInit ==
    /\ BuildIdle
    /\ QueryIdle
    /\ EnsureIdle
    /\ EvalIdle
    /\ rd_file \in ReadCatalogue
    /\ rd_gen = GenStart
    /\ rd_out = <<>>
    /\ rd_state = "running"

\* next(gen): the generator runs to its next yield, to its return or to
\* the ValueError after the last encoding.
ReadNext ==
    /\ rd_state = "running"
    /\ LET r == read_rows_next(rd_file, rd_gen)
       IN  /\ rd_gen' = r.gen
           /\ rd_state' = CASE r.kind = "yield"  -> "running"
                            [] r.kind = "return" -> "returned"
                            [] OTHER             -> "raised"
           /\ rd_out' = IF r.kind = "yield"
                        THEN Append(rd_out, [item |-> r.item, enc |-> r.gen.enc,
                                             header |-> r.gen.pos = 1])
                        ELSE rd_out
    /\ UNCHANGED <<rd_file, buildVars, queryVars, evalVars, ensureVars>>

SpecRead == ReadInit /\ [][ReadNext]_vars

\* C10: read_rows yields one header, as its first item, and after it only
\* rows of that same encoding; once a header has been yielded no other
\* encoding is tried, so no second header and no repeated row appears.
C10_OneHeaderOneEncoding ==
    \A i \in DOMAIN rd_out :
        /\ rd_out[i].header <=> i = 1
        /\ rd_out[i].enc = rd_out[1].enc

(***************************************************************************)
(* The query engine: requests to backend.check against a built index.       *)
(***************************************************************************)
RowsQ ==
    << << <<"A","p","p","l","i","c","a","n","t"," ","n","a","m","e">>,
          <<"A","p","p","l","i","c","a","t","i","o","n"," ","n","u","m","b","e","r">>,
          <<"P","u","b","l","i","c","a","t","i","o","n"," ","n","u","m","b","e","r">>,
          <<"S","t","a","t","u","s">>,
          <<"D","a","t","e"," ","n","o","t"," ","i","n"," ","f","o","r","c","e">>,
          <<"F","i","l","i","n","g"," ","d","a","t","e">> >>,
       << <<"a","c","m","e"," ","l","a","b","s">>, <<"G","B","2","0","0">>,
          <<>>, <<"G","r","a","n","t","e","d">>, <<"4","5","0","0","0">>,
          <<"4","4","0","0","0",".","7","5">> >>,
       << <<"a","c","m","e"," ","l","a","b","o","r","a","t","o","r","i","e","s"," ","i","n","c">>,
          <<"G","B","2","0","1">>, <<>>, <<"G","r","a","n","t","e","d">>, <<>>,
          <<>> >>,
       << <<"a","c","m","e"," ","l","a","b">>, <<"G","B","2","0","2">>, <<>>,
          <<"L","a","p","s","e","d">>, <<>>, <<"n","/","a">> >>,
       << <<"Z","e","d">>, <<"G","B","2","0","3">>,
          <<"a","c","m","e"," ","l","a","b"," ","7">>,
          <<"G","r","a","n","t","e","d">>, <<"0">>,
          <<"0","1","/","0","2","/","2","0","2","0">> >> >>

T_acme == <<"a","c","m","e">>
T_acme_co == <<" ","A","C","M","E"," "," ","c","o","!"," ">>
T_acme_robotic == <<"a","c","m","e"," ","r","o","b","o","t","i","c">>
T_acme_r == <<"a","c","m","e"," ","r">>
T_zed == <<"z","e","d">>
T_zz == <<"z","z">>
T_dashes == <<"-","-","-">>
T_acme_lab == <<"a","c","m","e"," ","l","a","b">>
K_US == <<"U","S">>
K_uk == <<" ","u","k">>
K_all == <<"A","l","l">>
K_Mars == <<"M","a","r","s">>
L_9_42 == <<"9",","," ","4","2">>
S_Acme == <<"A","c","m","e">>
S_Registered == <<"R","e","g","i","s","t","e","r","e","d">>
S_Dead == <<"D","e","a","d">>
D_2024_06_30 == <<"2","0","2","4","-","0","6","-","3","0">>


SheetQ == [path |-> "q.xlsx", rows |-> RowsQ]

\* An index built by the ingestion job from two text exports, the journal
\* and both spreadsheets.
IndexSmall ==
    [ exists |-> TRUE, schema |-> TRUE, fts |-> TRUE,
      marks  |-> AllJournals(AllTxt(<<>>, <<FileA, FileB>>, 1).marks, <<JournalX>>, 1),
      patents |-> AllPatents(<<>>, <<SheetP, SheetQ>>, 1) ]

\* The number of marks of the large index: more than DEFAULT_LIMIT of them
\* share a prefix.
NumBulk == 26

BulkMark(i) ==
    LET mark_text == S_Acme \o NatToStr(i)
    IN  [ reg_no         |-> <<"U","S">> \o NatToStr(i),
          mark_text      |-> mark_text,
          mark_text_norm |-> norm_text(mark_text),
          owner_name     |-> <<>>,
          owner_type     |-> infer_owner_type(<<>>),
          country        |-> S_UnitedStates,
          status         |-> IF i % 3 = 0 THEN S_Dead ELSE S_Registered,
          expired        |-> IF i % 2 = 0 THEN D_2024_06_30 ELSE <<>>,
          class_codes    |-> IF i % 5 = 0 THEN <<"9">> ELSE <<>>,
          goods_services |-> <<>>,
          source_file    |-> "bulk.txt" ]

IndexBulk ==
    [ exists |-> TRUE, schema |-> TRUE, fts |-> TRUE,
      marks  |-> [i \in 1..NumBulk |-> BulkMark(i)],
      patents |-> AllPatents(<<>>, <<SheetP, SheetQ>>, 1) ]

\* A file that main has recreated and not yet given its tables.
IndexNoSchema == [NoIndex EXCEPT !.exists = TRUE]

QueryIndexes == {NoIndex, IndexNoSchema, IndexSmall, IndexBulk}

\* The payloads: every trademark with every country, patents included and
\* no class filter; and some with a class filter, with and without patents.
Requests ==
    [ trademark : {<<>>, T_zz, T_zed, T_dashes, T_acme, T_acme_co, T_acme_r,
                   T_acme_robotic, T_acme_lab},
      country   : {<<>>, K_US, K_uk, K_all, K_Mars},
      classes   : {<<>>},
      include_patents : {TRUE} ]
    \cup [ trademark : {T_acme, T_acme_lab}, country : {K_US},
           classes : {L_9_42}, include_patents : {FALSE} ]
    \cup [ trademark : {T_acme_lab, T_acme_co}, country : {K_all, K_uk},
           classes : {L_9_42}, include_patents : BOOLEAN ]

\* now_date() at the time of a request.
Todays == {<<2024, 6, 30>>, <<2024, 7, 1>>}

\* The shape of every response of check; error is "" on success.
Response(code, error, classes, risk, matches, patents) ==
    [ code |-> code, error |-> error, classes |-> classes, risk_level |-> risk,
      match_count |-> Len(matches), patent_count |-> Len(patents),
      similar_marks |-> matches, patents |-> patents ]

ErrorResponse(code, error) == Response(code, error, <<>>, "", <<>>, <<>>)

\* The server is up, its index file is whichever of QueryIndexes was
\* deployed, and no request is in progress.  TRADEMARK_DB_URL is not set.
QueryInit ==
    /\ ReadIdle
    /\ EvalIdle
    /\ EnsureIdle
    /\ txt_files = <<>>
    /\ xlsx_files = <<>>
    /\ xml_files = <<>>
    /\ pc = "idle"
    /\ idx = 1
    /\ disk \in QueryIndexes
    /\ con = [open |-> FALSE, marks |-> <<>>, patents |-> <<>>, fts |-> FALSE]
    /\ ingested = <<>>
    /\ files_done = {}
    /\ seen = NotSeen
    /\ q_pc = "begin"
    /\ q_req = NoRequest
    /\ q_term_norm = <<>>
    /\ q_con = "none"
    /\ q_lookups = <<>>
    /\ q_exact = <<>>
    /\ q_rows = <<>>
    /\ q_patent_rows = <<>>
    /\ q_resp = NoResponse

\* has_index()
has_index == disk.exists

\* check, from the arrival of a request to open_db: ensure_index, the
\* payload and its validation.
CheckBegin ==
    /\ q_pc = "begin"
    /\ \E req \in Requests :
         LET term == Strip(req.trademark)
             country == Strip(req.country)
         IN  /\ q_req' = req
             /\ IF ~has_index
                THEN /\ q_resp' = ErrorResponse(400, "Index not found and TRADEMARK_DB_URL is not set.")
                     /\ q_pc' = "done"
                     /\ q_term_norm' = q_term_norm
                ELSE IF term = <<>>
                THEN /\ q_resp' = ErrorResponse(400, "Missing trademark")
                     /\ q_pc' = "done"
                     /\ q_term_norm' = q_term_norm
                ELSE IF country = <<>>
                THEN /\ q_resp' = ErrorResponse(400, "Missing country")
                     /\ q_pc' = "done"
                     /\ q_term_norm' = q_term_norm
                ELSE IF Len(Strip(term)) < 3
                THEN /\ q_resp' = ErrorResponse(400, "Please enter at least 3 characters.")
                     /\ q_pc' = "done"
                     /\ q_term_norm' = q_term_norm
                ELSE /\ q_term_norm' = norm_text(term)
                     /\ q_pc' = "open"
                     /\ q_resp' = q_resp
    /\ UNCHANGED <<q_con, q_lookups, q_exact, q_rows, q_patent_rows>>
    /\ UNCHANGED <<buildVars, readVars, evalVars, ensureVars>>

\* con = open_db() and country_available(con, country).  On a file without
\* the marks table the SELECT raises sqlite3.OperationalError: the request
\* ends in a 500 and nothing closes the connection.
CheckOpen ==
    /\ q_pc = "open"
    /\ IF ~disk.schema
       THEN /\ q_con' = "open"
            /\ q_resp' = ErrorResponse(500, "OperationalError")
            /\ q_pc' = "done"
       ELSE IF ~country_available(disk.marks, Strip(q_req.country))
       THEN /\ q_con' = "closed"
            /\ q_resp' = ErrorResponse(400, "No records found for this country in the current index.")
            /\ q_pc' = "done"
       ELSE /\ q_con' = "open"
            /\ q_resp' = q_resp
            /\ q_pc' = "exact"
    /\ UNCHANGED <<q_req, q_term_norm, q_lookups, q_exact, q_rows, q_patent_rows>>
    /\ UNCHANGED <<buildVars, readVars, evalVars, ensureVars>>

\* query_candidates after its first SELECT: return the rows, return
\* nothing, or go on to the prefix SELECT.
AfterExactAlwaysPrefix(rows, term_norm) ==
    IF Len(term_norm) < MIN_PREFIX_LEN THEN "return_empty" ELSE "prefix"

AfterExactAnyLength(rows, term_norm) ==
    IF rows # <<>> THEN "return_rows" ELSE "prefix"

AfterExact(rows, term_norm) ==
    IF rows # <<>> THEN "return_rows"
    ELSE IF Len(term_norm) < MIN_PREFIX_LEN THEN "return_empty"
    ELSE "prefix"

\* query_candidates, 1) Exact match.
QueryExact ==
    /\ q_pc = "exact"
    /\ \E rows \in LimitChoices(ExactIds(disk.marks, q_term_norm, Strip(q_req.country)),
                               DEFAULT_LIMIT) :
         LET next == AfterExact(rows, q_term_norm)
         IN  /\ q_lookups' = Append(q_lookups, "exact")
             /\ q_exact' = rows
             /\ q_rows' = IF next = "return_rows" THEN rows ELSE <<>>
             /\ q_pc' = IF next = "prefix" THEN "prefix" ELSE "patents"
    /\ UNCHANGED <<q_req, q_term_norm, q_con, q_patent_rows, q_resp>>
    /\ UNCHANGED <<buildVars, readVars, evalVars, ensureVars>>

\* query_candidates, 2) Prefix match only; there is no third lookup.
QueryPrefix ==
    /\ q_pc = "prefix"
    /\ \E rows \in LimitChoices(PrefixIds(disk.marks, q_term_norm, Strip(q_req.country)),
                               DEFAULT_LIMIT) :
         /\ q_lookups' = Append(q_lookups, "prefix")
         /\ q_rows' = rows
         /\ q_pc' = "patents"
    /\ UNCHANGED <<q_req, q_term_norm, q_con, q_exact, q_patent_rows, q_resp>>
    /\ UNCHANGED <<buildVars, readVars, evalVars, ensureVars>>

\* patent_rows = query_patents(con, term_norm) if include_patents else []
QueryPatents ==
    /\ q_pc = "patents"
    /\ IF q_req.include_patents /\ Len(q_term_norm) >= MIN_PREFIX_LEN
       THEN \E rows \in LimitChoices(PatentIds(disk.patents, q_term_norm), DEFAULT_LIMIT) :
                q_patent_rows' = rows
       ELSE q_patent_rows' = <<>>
    /\ q_pc' = "respond"
    /\ UNCHANGED <<q_req, q_term_norm, q_con, q_lookups, q_exact, q_rows, q_resp>>
    /\ UNCHANGED <<buildVars, readVars, evalVars, ensureVars>>

\* [summarize_mark(r, term_norm) for r in rows]
RECURSIVE SummarizeMarks(_, _, _, _)
SummarizeMarks(marks, ids, term_norm, today) ==
    IF ids = <<>> THEN <<>>
    ELSE <<summarize_mark(marks[Head(ids)], term_norm, today)>>
             \o SummarizeMarks(marks, Tail(ids), term_norm, today)

\* [summarize_patent(r, term_norm) for r in patent_rows]
RECURSIVE SummarizePatents(_, _, _)
SummarizePatents(patents, ids, term_norm) ==
    IF ids = <<>> THEN <<>>
    ELSE <<summarize_patent(patents[Head(ids)], term_norm)>>
             \o SummarizePatents(patents, Tail(ids), term_norm)

\* ms[:n]
Take(ms, n) == SubSeq(ms, 1, IF Len(ms) < n THEN Len(ms) ELSE n)

\* check from con.close() to the response: summaries, sort, cap, risk.
CheckRespond ==
    /\ q_pc = "respond"
    /\ \E today \in Todays :
         LET class_filter == parse_classes(q_req.classes)
             matches == Take(SortDesc(SummarizeMarks(disk.marks, q_rows, q_term_norm, today)),
                             TOP_N)
             patents == Take(SortDesc(SummarizePatents(disk.patents, q_patent_rows, q_term_norm)),
                             TOP_N)
         IN  q_resp' = Response(200, "", class_filter, score_risk(matches, class_filter),
                                matches, patents)
    /\ q_con' = "closed"
    /\ q_pc' = "done"
    /\ UNCHANGED <<q_req, q_term_norm, q_lookups, q_exact, q_rows, q_patent_rows>>
    /\ UNCHANGED <<buildVars, readVars, evalVars, ensureVars>>

\* The request is over; the server waits for the next one.
CheckReset ==
    /\ q_pc = "done"
    /\ q_pc' = "begin"
    /\ q_req' = NoRequest
    /\ q_term_norm' = <<>>
    /\ q_con' = "none"
    /\ q_lookups' = <<>>
    /\ q_exact' = <<>>
    /\ q_rows' = <<>>
    /\ q_patent_rows' = <<>>
    /\ q_resp' = NoResponse
    /\ UNCHANGED <<buildVars, readVars, evalVars, ensureVars>>

QueryNext ==
    \/ CheckBegin
    \/ CheckOpen
    \/ QueryExact
    \/ QueryPrefix
    \/ QueryPatents
    \/ CheckRespond
    \/ CheckReset

SpecQuery == QueryInit /\ [][QueryNext]_vars

(***************************************************************************)
(* Claims about the query engine.                                           *)
(***************************************************************************)
\* query_candidates has returned in the request in progress.
CandidatesReturned == q_pc \in {"patents", "respond", "done"} /\ q_lookups # <<>>

\* C4: whenever the exact tier returns at least one row, query_candidates
\* returns those rows and never executes the prefix lookup; the prefix
\* lookup is executed only as the second lookup, after an exact lookup that
\* returned no rows.
C4_ExactShortCircuitsPrefix ==
    /\ CandidatesReturned /\ q_exact # <<>> =>
           q_lookups = <<"exact">> /\ q_rows = q_exact
    /\ \A k \in DOMAIN q_lookups :
           q_lookups[k] = "prefix" =>
               k = 2 /\ q_lookups[1] = "exact" /\ q_exact = <<>>

\* A request whose exact tier found rows although a prefix scan, long
\* enough to be made, would have found a different set.
C4_Witness ==
    /\ q_pc = "done" /\ q_resp.code = 200
    /\ q_exact # <<>>
    /\ Len(q_term_norm) >= MIN_PREFIX_LEN
    /\ PrefixIds(disk.marks, q_term_norm, Strip(q_req.country)) # q_exact

\* The marks in the resolved country set whose mark_text_norm starts with
\* the normalized query of the request in progress.
StartsWithQuery ==
    LET countries == Range(resolve_countries(Strip(q_req.country)))
    IN  { i \in DOMAIN disk.marks :
            /\ disk.marks[i].country \in countries
            /\ StartsWith(disk.marks[i].mark_text_norm, q_term_norm) }

\* C5: when the exact tier is empty, a normalized query of fewer than 4
\* characters gives an empty result without a prefix lookup; one of 4 or
\* more gives marks of the resolved country set whose mark_text_norm starts
\* with the query, all of them or 25 when there are more; and there is never
\* a lookup beyond the exact and the prefix one.
C5_PrefixTier ==
    /\ Len(q_lookups) <= 2
    /\ \A k \in DOMAIN q_lookups : q_lookups[k] \in {"exact", "prefix"}
    /\ CandidatesReturned /\ q_exact = <<>> =>
         IF Len(q_term_norm) < 4
         THEN q_lookups = <<"exact">> /\ q_rows = <<>>
         ELSE LET found == StartsWithQuery
              IN  /\ q_lookups = <<"exact", "prefix">>
                  /\ Range(q_rows) \subseteq found
                  /\ Cardinality(Range(q_rows)) = Len(q_rows)
                  /\ Len(q_rows) = IF Cardinality(found) > 25 THEN 25
                                   ELSE Cardinality(found)

\* A prefix scan that found more marks than the limit and returned 25.
C5_Witness ==
    /\ q_pc = "done" /\ q_resp.code = 200
    /\ q_exact = <<>>
    /\ Cardinality(StartsWithQuery) > 25
    /\ Len(q_rows) = 25

\* Active records first, and similarity non-increasing among the active and
\* among the inactive.
Ranked(ms) ==
    \A i, j \in DOMAIN ms :
        i < j => /\ ms[j].active => ms[i].active
                 /\ ms[i].active = ms[j].active => ms[i].similarity >= ms[j].similarity

\* An active record ranked above an inactive one of greater similarity.
ActiveOutranks(ms) ==
    \E i, j \in DOMAIN ms :
        i < j /\ ms[i].active /\ ~ms[j].active /\ ms[i].similarity < ms[j].similarity

\* C7: in a response of check, similar_marks and patents each list every
\* active record before every inactive one, by non-increasing similarity
\* within the active and within the inactive, and hold at most 50 entries.
C7_ResponseRanked ==
    q_resp.code = 200 =>
        /\ Ranked(q_resp.similar_marks) /\ Len(q_resp.similar_marks) <= 50
        /\ Ranked(q_resp.patents) /\ Len(q_resp.patents) <= 50

\* A response in which each list has an active record above an inactive
\* one of greater similarity.
C7_Witness ==
    /\ q_resp.code = 200
    /\ ActiveOutranks(q_resp.similar_marks)
    /\ ActiveOutranks(q_resp.patents)

S_AcmeRoboticsLtd == <<"A","c","m","e"," ","R","o","b","o","t","i","c","s"," ","L","t","d">>

\* C9: on an index whose spreadsheet rows hold the applicant "Acme
\* Robotics Ltd" with no not-in-force date, the answer to the query
\* "acme robotic" for country "US", patents included, lists that applicant
\* among its patents with similarity above 0.85 and active.
C9_AcmeRoboticsFound ==
    /\ q_pc = "done"
    /\ q_req.trademark = T_acme_robotic /\ q_req.country = K_US
    /\ q_req.include_patents
    /\ \E i \in DOMAIN disk.patents :
           /\ disk.patents[i].applicant_name = S_AcmeRoboticsLtd
           /\ disk.patents[i].date_not_in_force = <<>>
    =>
    /\ q_resp.code = 200
    /\ \E k \in DOMAIN q_resp.patents :
           /\ q_resp.patents[k].applicant_name = S_AcmeRoboticsLtd
           /\ q_resp.patents[k].similarity > 8500
           /\ q_resp.patents[k].active

(***************************************************************************)
(* score_risk on its own: every list of up to MaxMatches summaries around   *)
(* the two thresholds, with and without a class filter.                     *)
(***************************************************************************)
MaxMatches == 2

SeqsUpTo(S, n) == UNION { [1..k -> S] : k \in 0..n }

RiskSimilarities == {8499, 8500, 8600, 9199, 9200, 9300}

RiskMatches ==
    [ active : BOOLEAN, similarity : RiskSimilarities,
      class_codes : {<<>>, <<<<"9">>>>, <<<<"1","0">>>>} ]

RiskInit ==
    /\ BuildIdle
    /\ ReadIdle
    /\ QueryIdle
    /\ EnsureIdle
    /\ ev_fn = "score_risk"
    /\ ev_in \in [ matches : SeqsUpTo(RiskMatches, MaxMatches),
                   class_filter : {<<>>, <<<<"9">>, <<"4","2">>>>} ]
    /\ ev_out = <<>>

CallScoreRisk ==
    /\ ev_fn = "score_risk"
    /\ ev_out = <<>>
    /\ ev_out' = <<score_risk(ev_in.matches, ev_in.class_filter)>>
    /\ UNCHANGED <<ev_fn, ev_in, buildVars, readVars, queryVars, ensureVars>>

RiskNext == CallScoreRisk

SpecRisk == RiskInit /\ [][RiskNext]_vars

\* The records score_risk counts: all of them without a class filter, else
\* those with a class code in the filter.
Counted(m) ==
    ev_in.class_filter = <<>>
    \/ \E c \in Range(ev_in.class_filter) : c \in Range(m.class_codes)

HasStrong ==
    \E i \in DOMAIN ev_in.matches :
        LET m == ev_in.matches[i]
        IN  Counted(m) /\ m.active /\ m.similarity >= 9200

HasMedium ==
    \E i \in DOMAIN ev_in.matches :
        LET m == ev_in.matches[i]
        IN  Counted(m) /\ m.active /\ m.similarity >= 8500 /\ m.similarity < 9200

\* C6: score_risk returns "high" exactly when a counted record is active
\* with similarity >= 0.92, else "medium" exactly when a counted record is
\* active with similarity in [0.85, 0.92), else "low"; with a class filter
\* only records sharing a class code with it are counted.
C6_RiskTiers ==
    ev_fn = "score_risk" /\ ev_out # <<>> =>
        /\ ev_out[1] = "high" <=> HasStrong
        /\ ev_out[1] = "medium" <=> ~HasStrong /\ HasMedium
        /\ ev_out[1] = "low" <=> ~HasStrong /\ ~HasMedium

\* An active record of similarity 0.93 with an active one of 0.86: "high".
C6_Witness ==
    /\ ev_fn = "score_risk" /\ ev_out = <<"high">>
    /\ ev_in.class_filter = <<>>
    /\ Len(ev_in.matches) = 2
    /\ ev_in.matches[1].active /\ ev_in.matches[1].similarity = 9300
    /\ ev_in.matches[2].active /\ ev_in.matches[2].similarity = 8600

(***************************************************************************)
(* is_active on its own.  Each input carries, beside the strings the        *)
(* function is given, what is known of them by construction: whether the    *)
(* status is one of the inactive ones, and the day number of the expiry     *)
(* (-1 for a string that is not a date) and of the current date.            *)
(***************************************************************************)
ST_DEAD_sp == <<" ","D","E","A","D"," ">>
ST_Expired == <<"E","x","p","i","r","e","d">>
ST_withdrawn == <<"w","i","t","h","d","r","a","w","n">>
ST_REVOKED == <<"R","E","V","O","K","E","D">>
ST_cancelled_sp == <<"c","a","n","c","e","l","l","e","d"," ">>
ST_Removed == <<"R","e","m","o","v","e","d">>
ST_deadline == <<"d","e","a","d","l","i","n","e">>
ST_canceled == <<"c","a","n","c","e","l","e","d">>
X_na == <<"n","/","a">>
X_2024_02_30 == <<"2","0","2","4","-","0","2","-","3","0">>
X_sp_2024_01_01 == <<" ","2","0","2","4","-","0","1","-","0","1">>
X_24_01_01 == <<"2","4","-","0","1","-","0","1">>
X_2024_01_01T == <<"2","0","2","4","-","0","1","-","0","1","T","0","0",":","0","0">>
X_2024_1_5 == <<"2","0","2","4","-","1","-","5">>

Statuses ==
    { [text |-> S_Registered, inactive |-> FALSE],
      [text |-> <<>>, inactive |-> FALSE],
      [text |-> ST_deadline, inactive |-> FALSE],
      [text |-> ST_canceled, inactive |-> FALSE],
      [text |-> ST_DEAD_sp, inactive |-> TRUE],
      [text |-> ST_Expired, inactive |-> TRUE],
      [text |-> ST_withdrawn, inactive |-> TRUE],
      [text |-> ST_REVOKED, inactive |-> TRUE],
      [text |-> ST_cancelled_sp, inactive |-> TRUE],
      [text |-> ST_Removed, inactive |-> TRUE] }

\* Day numbers (days since 1899-12-30) of 2023-12-31, 2024-01-01,
\* 2024-02-29 and 2024-03-01.
TodaySerials == {45291, 45292, 45351, 45352}

MaxDayOffset == 1

DayOffsets == (-MaxDayOffset..MaxDayOffset) \cup {-366, 366}

NotDates == {X_na, X_2024_02_30, X_sp_2024_01_01, X_24_01_01, X_2024_01_01T}

Expiries(n) ==
    { [text |-> IsoFormat(DateFromSerial(n + d)), serial |-> n + d] : d \in DayOffsets }
    \cup { [text |-> x, serial |-> -1] : x \in NotDates }
    \cup { [text |-> <<>>, serial |-> -1], [text |-> X_2024_1_5, serial |-> 45296] }

ActiveInputs ==
    UNION { { [ status |-> st.text, status_inactive |-> st.inactive,
                expired |-> e.text, exp_serial |-> e.serial,
                today |-> DateFromSerial(n), today_serial |-> n ] :
              st \in Statuses, e \in Expiries(n) } : n \in TodaySerials }

ActiveInit ==
    /\ BuildIdle
    /\ ReadIdle
    /\ QueryIdle
    /\ EnsureIdle
    /\ ev_fn = "is_active"
    /\ ev_in \in ActiveInputs
    /\ ev_out = <<>>

CallIsActive ==
    /\ ev_fn = "is_active"
    /\ ev_out = <<>>
    /\ ev_out' = <<is_active(ev_in.status, ev_in.expired, ev_in.today)>>
    /\ UNCHANGED <<ev_fn, ev_in, buildVars, readVars, queryVars, ensureVars>>

ActiveNext == CallIsActive

SpecActive == ActiveInit /\ [][ActiveNext]_vars

\* C8: is_active is false exactly when the status, trimmed and lower-cased,
\* is one of dead, expired, withdrawn, revoked, cancelled, removed, or the
\* expiry is a date strictly before the current UTC date; an expiry of
\* today or later, an unparseable or an empty one leaves the mark active.
C8_IsActiveBoundary ==
    ev_fn = "is_active" /\ ev_out # <<>> =>
        (ev_out[1] = FALSE <=>
            \/ ev_in.status_inactive
            \/ ev_in.exp_serial >= 0 /\ ev_in.exp_serial < ev_in.today_serial)

\* Status "Registered" with an expiry of yesterday: inactive.
C8_Witness ==
    /\ ev_fn = "is_active" /\ ev_out = <<FALSE>>
    /\ ev_in.status = S_Registered
    /\ ev_in.exp_serial = ev_in.today_serial - 1

(***************************************************************************)
(* norm_text on its own: applied to a string, then to its own result.       *)
(***************************************************************************)
\* A character outside ASCII (its lower case is outside ASCII too).
NonAscii == "U+00E9"

NormAlphabet == {"A", "z", "7", " ", "\t", "-", "_", NonAscii}

MaxNormLen == 4

X_AcmeCoLtd == <<"A","c","m","e","-","C","o",".",","," ","L","t","d","!","!">>
X_acme_co_ltd == <<"a","c","m","e"," ","c","o"," ","l","t","d">>

NormInputs == SeqsUpTo(NormAlphabet, MaxNormLen) \cup {X_AcmeCoLtd}

NormInit ==
    /\ BuildIdle
    /\ ReadIdle
    /\ QueryIdle
    /\ EnsureIdle
    /\ ev_fn = "norm_text"
    /\ ev_in \in NormInputs
    /\ ev_out = <<>>

\* norm_text(s)
CallNormText ==
    /\ ev_fn = "norm_text"
    /\ ev_out = <<>>
    /\ ev_out' = <<norm_text(ev_in)>>
    /\ UNCHANGED <<ev_fn, ev_in, buildVars, readVars, queryVars, ensureVars>>

\* norm_text(norm_text(s))
CallNormTextAgain ==
    /\ ev_fn = "norm_text"
    /\ Len(ev_out) = 1
    /\ ev_out' = Append(ev_out, norm_text(ev_out[1]))
    /\ UNCHANGED <<ev_fn, ev_in, buildVars, readVars, queryVars, ensureVars>>

NormNext == CallNormText \/ CallNormTextAgain

SpecNorm == NormInit /\ [][NormNext]_vars

\* Only a-z, 0-9 and single spaces, none of them first or last.
Normalized(r) ==
    /\ \A i \in DOMAIN r : r[i] \in Range(LowerAZ) \cup Range(DigitChars) \cup {" "}
    /\ r # <<>> => r[1] # " " /\ r[Len(r)] # " "
    /\ \A i \in 1..(Len(r) - 1) : ~(r[i] = " " /\ r[i + 1] = " ")

\* C12: norm_text(norm_text(s)) = norm_text(s) for every string s; the
\* result holds only a-z, 0-9 and single interior spaces, with no leading
\* or trailing space; and "Acme-Co., Ltd!!" gives "acme co ltd".
C12_NormIdempotent ==
    ev_fn = "norm_text" =>
        /\ Len(ev_out) >= 1 => Normalized(ev_out[1])
        /\ Len(ev_out) = 2 => ev_out[2] = ev_out[1]
        /\ Len(ev_out) >= 1 /\ ev_in = X_AcmeCoLtd => ev_out[1] = X_acme_co_ltd

\* norm_text applied twice to a string that it changes: mixed case,
\* punctuation, a run of separators and a space at an end.
C12_Witness ==
    /\ ev_fn = "norm_text" /\ Len(ev_out) = 2
    /\ ev_in = <<"\t", "A", "-", "7">>
    /\ ev_out[1] = <<"a", " ", "7">>

(***************************************************************************)
(* excel_date_to_iso on its own.  Each input carries, beside the cell text, *)
(* what is known of it by construction: whether it is a numeral, whether    *)
(* its value is positive, and the date floor(value) days after 1899-12-30.  *)
(***************************************************************************)
\* Day counts with the ISO date that many days after 1899-12-30.
SerialDates ==
    { [n |-> 0, iso |-> <<"1","8","9","9","-","1","2","-","3","0">>],
      [n |-> 1, iso |-> <<"1","8","9","9","-","1","2","-","3","1">>],
      [n |-> 60, iso |-> <<"1","9","0","0","-","0","2","-","2","8">>],
      [n |-> 61, iso |-> <<"1","9","0","0","-","0","3","-","0","1">>],
      [n |-> 366, iso |-> <<"1","9","0","0","-","1","2","-","3","1">>],
      [n |-> 36526, iso |-> <<"2","0","0","0","-","0","1","-","0","1">>],
      [n |-> 45000, iso |-> <<"2","0","2","3","-","0","3","-","1","5">>],
      [n |-> 45351, iso |-> <<"2","0","2","4","-","0","2","-","2","9">>] }

\* Cell texts that float() rejects.
NonNumeric ==
    { <<"a","b","c">>,
      <<"0","1","/","0","2","/","2","0","2","0">>,
      <<"2","0","2","0","-","0","1","-","0","2">>,
      <<"N","u","l","l">>,
      <<"-">>,
      <<"+">>,
      <<".">>,
      <<"1",".","2",".","3">>,
      <<"1"," ","0","0","0">>,
      <<"1","2","a">> }

Fractions == {<<>>, <<".", "0">>, <<".", "7", "5">>}

Paddings == {<<>>, <<" ">>}

ExcelInputs ==
    { [ text |-> pad \o sign \o NatToStr(d.n) \o frac \o pad,
        kind |-> IF sign = <<"-">> \/ (d.n = 0 /\ frac # <<".", "7", "5">>)
                 THEN "non_positive" ELSE "positive",
        iso  |-> d.iso ] :
      d \in SerialDates, frac \in Fractions, sign \in {<<>>, <<"+">>, <<"-">>},
      pad \in Paddings }
    \cup { [ text |-> pad \o x \o pad, kind |-> "non_numeric", iso |-> <<>> ] :
           x \in NonNumeric \cup NULL_VALUES, pad \in Paddings }

ExcelInit ==
    /\ BuildIdle
    /\ ReadIdle
    /\ QueryIdle
    /\ EnsureIdle
    /\ ev_fn = "excel_date_to_iso"
    /\ ev_in \in ExcelInputs
    /\ ev_out = <<>>

CallExcelDateToIso ==
    /\ ev_fn = "excel_date_to_iso"
    /\ ev_out = <<>>
    /\ ev_out' = <<excel_date_to_iso(ev_in.text)>>
    /\ UNCHANGED <<ev_fn, ev_in, buildVars, readVars, queryVars, ensureVars>>

ExcelNext == CallExcelDateToIso

SpecExcel == ExcelInit /\ [][ExcelNext]_vars

\* C13: excel_date_to_iso gives the empty string for every non-numeric
\* input and for every numeric input that is not positive, and for a
\* positive serial n the ISO date floor(n) days after 1899-12-30.
C13_ExcelDateToIso ==
    ev_fn = "excel_date_to_iso" /\ ev_out # <<>> =>
        ev_out[1] = IF ev_in.kind = "positive" THEN ev_in.iso ELSE <<>>

\* What does hold for numerals and null markers: the empty string for a
\* value that is not positive and for "", NULL, null, N/A and n/a, and the
\* date floor(n) days after 1899-12-30 for a positive n.
ExcelNumeralsAndNulls ==
    ev_fn = "excel_date_to_iso" /\ ev_out # <<>> =>
        /\ ev_in.kind = "positive" => ev_out[1] = ev_in.iso
        /\ ev_in.kind = "non_positive" => ev_out[1] = <<>>
        /\ Strip(ev_in.text) \in NULL_VALUES => ev_out[1] = <<>>

\* What the code returns for any other text: the text itself, trimmed.
ExcelOtherTextKept ==
    ev_fn = "excel_date_to_iso" /\ ev_out # <<>> =>
        (ev_in.kind = "non_numeric" /\ Strip(ev_in.text) \notin NULL_VALUES
            => ev_out[1] = Strip(ev_in.text))

(***************************************************************************)
(* infer_owner_type on its own.  A name is a prefix, a middle part and a    *)
(* suffix; with it goes whether, by construction, its lower case contains   *)
(* one of ltd, limited, llc, inc, corp, gmbh, plc, llp, " and ", " & ".     *)
(***************************************************************************)
N_Acme == <<"A","c","m","e">>
N_Acme_sp == <<"A","c","m","e"," ">>
N_sp_x == <<" ","x">>
N_Bob == <<"B","o","b">>

\* The eight company words of the claim, in mixed case.
CompanyWords ==
    { <<"L","t","d">>,
      <<"L","I","M","I","T","E","D">>,
      <<"l","l","c">>,
      <<"I","n","c">>,
      <<"c","o","r","p">>,
      <<"G","m","b","H">>,
      <<"p","l","c">>,
      <<"L","L","P">> }

\* The two connectors, with the spaces around them.
Connectors == { <<" ","a","n","d"," ">>, <<" ","&"," ">> }

\* The connectors without their spaces.
BareConnectors == { <<"A","N","D">>, <<"&">> }

OwnerInputs ==
    { [ name |-> pre \o mid \o suf,
        has_marker |-> \/ mid \in CompanyWords \cup Connectors
                       \/ mid \in BareConnectors /\ pre = N_Acme_sp /\ suf = N_sp_x ] :
      pre \in {<<>>, N_Acme, N_Acme_sp},
      mid \in CompanyWords \cup Connectors \cup BareConnectors \cup {N_Bob, <<>>},
      suf \in {<<>>, N_sp_x, <<"s">>} }

OwnerInit ==
    /\ BuildIdle
    /\ ReadIdle
    /\ QueryIdle
    /\ EnsureIdle
    /\ ev_fn = "infer_owner_type"
    /\ ev_in \in OwnerInputs
    /\ ev_out = <<>>

CallInferOwnerType ==
    /\ ev_fn = "infer_owner_type"
    /\ ev_out = <<>>
    /\ ev_out' = <<infer_owner_type(ev_in.name)>>
    /\ UNCHANGED <<ev_fn, ev_in, buildVars, readVars, queryVars, ensureVars>>

OwnerNext == CallInferOwnerType

SpecOwner == OwnerInit /\ [][OwnerNext]_vars

\* C14: infer_owner_type gives "unknown" for the empty name, "company"
\* whenever the lower-cased name contains ltd, limited, llc, inc, corp,
\* gmbh, plc, llp, " and " or " & " anywhere, at its very start or attached
\* to another word included, and "individual_or_other" otherwise.
C14_InferOwnerType ==
    ev_fn = "infer_owner_type" /\ ev_out # <<>> =>
        ev_out[1] = IF ev_in.name = <<>> THEN "unknown"
                    ELSE IF ev_in.has_marker THEN "company"
                    ELSE "individual_or_other"

\* What the code does with the eight words: "company" only when a space
\* stands directly before the word.
OwnerWordNeedsSpace ==
    ev_fn = "infer_owner_type" /\ ev_out # <<>> =>
        \A w \in CompanyWords :
            \A suf \in {<<>>, N_sp_x, <<"s">>} :
                \A pre \in {<<>>, N_Acme, N_Acme_sp} :
                    ev_in.name = pre \o w \o suf =>
                        (ev_out[1] = "company" <=> pre = N_Acme_sp)

\* C17: for every request that passes the validation of check, the
\* normalized query handed to query_candidates is not empty, and so the
\* exact tier returns no mark whose mark_text_norm is the empty string.
C17_QueryNotEmpty ==
    q_lookups # <<>> =>
        /\ q_term_norm # <<>>
        /\ \A k \in DOMAIN q_exact : disk.marks[q_exact[k]].mark_text_norm # <<>>

(***************************************************************************)
(* The connection of a request.                                             *)
(***************************************************************************)
\* C15: a connection that check opened through open_db is closed when check
\* finishes, whichever way it finishes: the rejection of an unavailable
\* country, the successful response, or an error raised by
\* country_available, query_candidates or query_patents.
C15_ConnectionClosed ==
    q_pc = "done" => q_con # "open"

\* What does hold: the two exits the code wrote a close() for leave the
\* connection closed.
ClosedOnWrittenExits ==
    q_pc = "done" /\ q_con # "none" /\ q_resp.code # 500 => q_con = "closed"

(***************************************************************************)
(* ensure_index: the threads of one server process, each calling it up to   *)
(* MaxCalls times, with TRADEMARK_DB_URL set and no index at the start.     *)
(***************************************************************************)
NumThreads == 2

Threads == 1..NumThreads

MaxCalls == 2

\* The file the URL serves, and a file of which only a part was written.
RemoteIndex == IndexSmall
PartialDownload == [NoIndex EXCEPT !.exists = TRUE]

EnsureInit ==
    /\ ReadIdle
    /\ QueryIdle
    /\ EvalIdle
    /\ BuildIdle
    /\ download_attempted = FALSE
    /\ download_lock = 0
    /\ tmp_file = NoIndex
    /\ e_pc = [t \in Threads |-> "idle"]
    /\ e_ret = [t \in Threads |-> "none"]
    /\ e_calls = [t \in Threads |-> 0]
    /\ n_downloads = 0
    /\ removed = FALSE

buildRest == <<txt_files, xlsx_files, xml_files, pc, idx, con, ingested, files_done, seen>>

\* What ensure_index does once it holds the lock, before any download.
LockedDecisionNoFlag(exists, attempted) ==
    IF exists THEN "return_ok" ELSE "download"

LockedDecision(exists, attempted) ==
    IF exists THEN "return_ok"
    ELSE IF attempted /\ ~exists THEN "return_failed"
    ELSE "download"

\* A call begins: has_index(), then the test of DB_URL (set here).
EnsureCall(t) ==
    /\ e_pc[t] = "idle"
    /\ e_calls[t] < MaxCalls
    /\ e_calls' = [e_calls EXCEPT ![t] = @ + 1]
    /\ IF has_index
       THEN /\ e_ret' = [e_ret EXCEPT ![t] = "ok"]
            /\ e_pc' = e_pc
       ELSE /\ e_ret' = [e_ret EXCEPT ![t] = "none"]
            /\ e_pc' = [e_pc EXCEPT ![t] = "lock"]
    /\ UNCHANGED <<download_attempted, download_lock, tmp_file, n_downloads, removed>>
    /\ UNCHANGED <<buildVars, readVars, queryVars, evalVars>>

\* with _download_lock:
EnsureAcquire(t) ==
    /\ e_pc[t] = "lock"
    /\ download_lock = 0
    /\ download_lock' = t
    /\ e_pc' = [e_pc EXCEPT ![t] = "locked"]
    /\ UNCHANGED <<download_attempted, tmp_file, e_ret, e_calls, n_downloads, removed>>
    /\ UNCHANGED <<buildVars, readVars, queryVars, evalVars>>

\* Under the lock: the second has_index(), the test of the flag, the flag
\* set, mkdir, and urlretrieve started (or an exception before it starts).
EnsureLocked(t) ==
    /\ e_pc[t] = "locked"
    /\ LET decision == LockedDecision(has_index, download_attempted)
       IN  IF decision = "download"
           THEN /\ download_attempted' = TRUE
                /\ \/ /\ n_downloads' = n_downloads + 1
                      /\ tmp_file' = PartialDownload
                      /\ e_pc' = [e_pc EXCEPT ![t] = "download"]
                      /\ UNCHANGED <<download_lock, e_ret>>
                   \/ /\ e_ret' = [e_ret EXCEPT ![t] = "failed"]
                      /\ e_pc' = [e_pc EXCEPT ![t] = "idle"]
                      /\ download_lock' = 0
                      /\ UNCHANGED <<n_downloads, tmp_file>>
           ELSE /\ e_ret' = [e_ret EXCEPT ![t] =
                                 IF decision = "return_ok" THEN "ok" ELSE "failed"]
                /\ e_pc' = [e_pc EXCEPT ![t] = "idle"]
                /\ download_lock' = 0
                /\ UNCHANGED <<download_attempted, n_downloads, tmp_file>>
    /\ UNCHANGED <<e_calls, removed>>
    /\ UNCHANGED <<buildVars, readVars, queryVars, evalVars>>

\* urlretrieve ends: the whole file is in tmp_path, or an exception leaves
\* a part of it there and the call returns failure.
EnsureDownloaded(t) ==
    /\ e_pc[t] = "download"
    /\ \/ /\ tmp_file' = RemoteIndex
          /\ e_pc' = [e_pc EXCEPT ![t] = "replace"]
          /\ UNCHANGED <<download_lock, e_ret>>
       \/ /\ e_ret' = [e_ret EXCEPT ![t] = "failed"]
          /\ e_pc' = [e_pc EXCEPT ![t] = "idle"]
          /\ download_lock' = 0
          /\ UNCHANGED tmp_file
    /\ UNCHANGED <<download_attempted, e_calls, n_downloads, removed>>
    /\ UNCHANGED <<buildVars, readVars, queryVars, evalVars>>

\* os.replace(tmp_path, DB_PATH), and the lock released at the end of the
\* with block; or os.replace raises and the call returns failure.
EnsureReplace(t) ==
    /\ e_pc[t] = "replace"
    /\ download_lock' = 0
    /\ \/ /\ disk' = tmp_file
          /\ tmp_file' = NoIndex
          /\ e_pc' = [e_pc EXCEPT ![t] = "final"]
          /\ UNCHANGED e_ret
       \/ /\ e_ret' = [e_ret EXCEPT ![t] = "failed"]
          /\ e_pc' = [e_pc EXCEPT ![t] = "idle"]
          /\ UNCHANGED <<disk, tmp_file>>
    /\ UNCHANGED <<download_attempted, e_calls, n_downloads, removed>>
    /\ UNCHANGED <<buildRest, readVars, queryVars, evalVars>>

\* return (True, "") if has_index() else (False, ...)
EnsureFinal(t) ==
    /\ e_pc[t] = "final"
    /\ e_ret' = [e_ret EXCEPT ![t] = IF has_index THEN "ok" ELSE "failed"]
    /\ e_pc' = [e_pc EXCEPT ![t] = "idle"]
    /\ UNCHANGED <<download_attempted, download_lock, tmp_file, e_calls, n_downloads, removed>>
    /\ UNCHANGED <<buildVars, readVars, queryVars, evalVars>>

\* The index file is deleted from outside the server, as the rebuild job
\* does before it writes a new one.
IndexRemoved ==
    /\ has_index
    /\ ~removed
    /\ removed' = TRUE
    /\ disk' = NoIndex
    /\ UNCHANGED <<download_attempted, download_lock, tmp_file, e_pc, e_ret, e_calls, n_downloads>>
    /\ UNCHANGED <<buildRest, readVars, queryVars, evalVars>>

EnsureNext ==
    \/ \E t \in Threads :
           \/ EnsureCall(t)
           \/ EnsureAcquire(t)
           \/ EnsureLocked(t)
           \/ EnsureDownloaded(t)
           \/ EnsureReplace(t)
           \/ EnsureFinal(t)
    \/ IndexRemoved

SpecEnsure == EnsureInit /\ [][EnsureNext]_vars

\* The threads inside the download: urlretrieve running, or finished and
\* os.replace not yet done.
Downloading == {t \in Threads : e_pc[t] \in {"download", "replace"}}

\* A thread that holds the lock after an attempt was made, with the index
\* absent, goes on to return failure and starts no download.
NoSecondAttempt ==
    \A t \in Threads :
        e_pc[t] = "locked" /\ download_attempted /\ ~has_index =>
            \/ e_pc'[t] = "locked"
            \/ e_pc'[t] = "idle" /\ e_ret'[t] = "failed" /\ n_downloads' = n_downloads

\* C16: over all concurrent and successive calls of ensure_index in one
\* process urlretrieve is started at most once and never by two threads at
\* a time; once an attempt was made, a call that finds the index absent
\* returns failure without downloading again; and the file at DB_PATH, when
\* there is one, is the completely downloaded file.
C16_DownloadOnce ==
    /\ [](n_downloads <= 1)
    /\ [](Cardinality(Downloading) <= 1)
    /\ [](has_index => disk = RemoteIndex)
    /\ [][NoSecondAttempt]_vars

\* The one download failed, and every thread has since made a further call
\* that found no index and returned failure.
C16_Witness ==
    /\ n_downloads = 1 /\ ~has_index /\ ~removed
    /\ \A t \in Threads :
           e_pc[t] = "idle" /\ e_calls[t] = MaxCalls /\ e_ret[t] = "failed"

=============================================================================
